---------------------------- MODULE Spec2Model ----------------------------
(***************************************************************************)
(* A model of the HFS+ checker of hfsutils (fsck.hfs+): the driver         *)
(* hfsplus_check_volume with its phases (src/src/fsck/hfsplus_check.c) and *)
(* the journal functions journal_is_valid, journal_replay and              *)
(* journal_disable (src/src/fsck/journal.c), together with the HFS+ part   *)
(* of the formatter (src/src/mkfs/mkfs_hfs_format.c).                      *)
(*                                                                         *)
(* The device is a sequence of 512-byte sectors ("cells"); byte offset o   *)
(* is cell o \div 512, kept at index o \div 512 + 1 of the sequence.  Every *)
(* on-disk structure of the model lives in one cell.  The journal header,  *)
(* block list header and block info (132, 40 and 20 bytes in journal.h)    *)
(* are padded to one cell each, so the position arithmetic of the replay   *)
(* loop (pos += sizeof ...) is kept with sizeof = 512.  All multi-byte     *)
(* fields are held as their decoded values; attribute and flag words are   *)
(* held as the set of the bit numbers that are set.                        *)
(***************************************************************************)
EXTENDS Integers, Naturals, Sequences, FiniteSets, TLC

---------------------------------------------------------------------------
(* Program constants *)

SectorSize == 512
VHOffset == 1024
SizeofVH == 512
SizeofJIB == 512
SizeofJH == 512
SizeofBLH == 512
SizeofBI == 512

JOURNAL_MAGIC == 1246645368
JOURNAL_ENDIAN == 305419896
HFSPLUS_SIGNATURE == 18475
HFSPLUS_VERSION == 4

JOURNAL_ON_OTHER_DEVICE == 0
JOURNAL_NEED_INIT == 1
HFSPLUS_VOL_JOURNALED == 13
HFSPLUS_JOURNALED == 13
HFSPLUS_DIRTY == 15
VOL_UNMOUNTED == 8

max_transactions == 1000
MaxNumBlocks == 1000

EIO == 5
EINVAL == 22

FSCK_OK == 0
FSCK_CORRECTED == 1
FSCK_UNCORRECTED == 4
FSCK_OPERATIONAL_ERROR == 8

---------------------------------------------------------------------------
(* Cells and their decoding *)

ZeroCell == [k |-> "zero"]
BootCell == [k |-> "boot"]
DataCell(v) == [k |-> "data", v |-> v]

ZeroHead ==
  [signature |-> 0, version |-> 0, attributes |-> {}, journalInfoBlock |-> 0,
   createDate |-> 0, checkedDate |-> 0, fileCount |-> 0, folderCount |-> 0,
   blockSize |-> 0, totalBlocks |-> 0, freeBlocks |-> 0]

ZeroTail ==
  [catalogSize |-> 0, catalogBlocks |-> 0, extentsSize |-> 0,
   attrSize |-> 0, attrBlocks |-> 0]

\* The first 112 bytes of a sector (the part struct HFSPlus_VolumeHeader
\* covers) and the remaining 400 bytes (the five fork-data descriptors).
HeadOf(c) == IF c.k = "vh" THEN c.head ELSE [raw |-> c]
TailOf(c) == IF c.k = "vh" THEN c.tail ELSE [raw |-> c]

VHCell(h, t) == [k |-> "vh", head |-> h, tail |-> t]

\* A sector read as struct HFSPlus_VolumeHeader_Complete.
DecodeHead(c) ==
  IF c.k = "vh" /\ "signature" \in DOMAIN c.head THEN c.head ELSE ZeroHead
\* The header as held in memory: the decoded first 112 bytes, and the fork
\* descriptors as read (Forks gives their fields).
ReadVH(c) == [head |-> DecodeHead(c), tail |-> TailOf(c)]
Forks(v) == IF "catalogSize" \in DOMAIN v.tail THEN v.tail ELSE ZeroTail

ZeroJIB == [k |-> "jib", flags |-> {}, offset |-> 0, size |-> 0]
AsJIB(c) == IF c.k = "jib" THEN c ELSE ZeroJIB

ZeroJH ==
  [k |-> "jh", magic |-> 0, endian |-> 0, start |-> 0, end |-> 0, size |-> 0,
   blhdrSize |-> 0, checksum |-> 0, jhdrSize |-> 0]
AsJH(c) == IF c.k = "jh" THEN c ELSE ZeroJH

ZeroBLH == [k |-> "blh", bsize |-> 0, numBlocks |-> 0, checksum |-> 0]
AsBLH(c) == IF c.k = "blh" THEN c ELSE ZeroBLH

ZeroBI == [k |-> "bi", bnum |-> 0, bsize |-> 0, next |-> 0]
AsBI(c) == IF c.k = "bi" THEN c ELSE ZeroBI

ZeroBT ==
  [k |-> "bt", rootNode |-> 0, leafRecords |-> 0, firstLeafNode |-> 0,
   lastLeafNode |-> 0, nodeSize |-> 0, totalNodes |-> 0, freeNodes |-> 0]
AsBT(c) == IF c.k = "bt" THEN c ELSE ZeroBT

---------------------------------------------------------------------------
(* Device I/O: lseek + read / write on the open descriptor *)

DevSize(d) == Len(d) * SectorSize
CellAt(d, off) == d[(off \div SectorSize) + 1]

\* read(fd, buf, len) == len
ReadOK(d, off, len) == off + len <= DevSize(d)

RECURSIVE ZeroCells(_)
ZeroCells(n) == IF n <= 0 THEN << >> ELSE <<ZeroCell>> \o ZeroCells(n - 1)

\* The cells [off, off+len) of the device.
ReadCells(d, off, len) ==
  SubSeq(d, (off \div SectorSize) + 1, (off + len) \div SectorSize)

\* write(fd, cells) at off.  A regular file grows (the hole reads as zero);
\* a block device takes the bytes that fit and returns a short count.
Overlay(d, off, cells) ==
  [i \in 1..Len(d) |->
     IF i > off \div SectorSize /\ i <= (off \div SectorSize) + Len(cells)
     THEN cells[i - (off \div SectorSize)] ELSE d[i]]

\* Variant: a write that adds to what the sector holds instead of replacing
\* it.
WriteCells_Accumulate(d, isFile, off, cells) ==
  LET need == (off \div SectorSize) + Len(cells)
      d1 == IF need > Len(d) /\ isFile THEN d \o ZeroCells(need - Len(d))
            ELSE d
      mix == [i \in 1..Len(cells) |->
                LET t == (off \div SectorSize) + i IN
                IF t <= Len(d1) /\ d1[t].k = "data" /\ cells[i].k = "data"
                THEN DataCell(d1[t].v + cells[i].v) ELSE cells[i]]
  IN [d |-> Overlay(d1, off, mix), ok |-> need <= Len(d1)]

WriteCells(d, isFile, off, cells) ==
  LET need == (off \div SectorSize) + Len(cells) IN
  IF need <= Len(d)
  THEN [d |-> Overlay(d, off, cells), ok |-> TRUE]
  ELSE IF isFile
       THEN [d |-> Overlay(d \o ZeroCells(need - Len(d)), off, cells),
             ok |-> TRUE]
       ELSE [d |-> Overlay(d, off, cells), ok |-> FALSE]

\* write(fd, vh, sizeof(struct HFSPlus_VolumeHeader)): the first 112 bytes of
\* the sector at off are replaced, the rest of the sector is kept.
WriteHead(d, isFile, off, h) ==
  LET i == off \div SectorSize
      old == IF i + 1 <= Len(d) THEN d[i + 1] ELSE ZeroCell
  IN WriteCells(d, isFile, off, <<VHCell(h, TailOf(old))>>)

\* A device operation as it appears in the run's record: what is written
\* ("payload", "jh", "jib", "vh", "vhbackup", "bt", ...), where, how much.
OpWrite(what, off, len) ==
  [op |-> "write", what |-> what, off |-> off, len |-> len, src |-> 0]
OpSync == [op |-> "sync", what |-> "sync", off |-> 0, len |-> 0, src |-> 0]
\* A replayed block: len bytes read at device offset src, written at off.
OpPayload(off, len, src) ==
  [op |-> "write", what |-> "payload", off |-> off, len |-> len, src |-> src]

---------------------------------------------------------------------------
(* journal.c *)

\* journal_calculate_checksum over a journal header whose checksum field is
\* zero: the sum of its 32-bit big-endian words.  (The field values of the
\* model keep the sum below 2^31, so the 32-bit wrap does not occur.)
JHChecksum(h) ==
  h.magic + h.endian + h.start + h.end + h.size + h.blhdrSize + h.jhdrSize

\* The same sum over a block list header: bsize and numBlocks share the
\* first word.
BLHChecksum(b) == b.bsize * 65536 + b.numBlocks

\* Variant: the stored checksum is not compared.
JournalHeaderValid_NoChecksum(jh, jib) ==
  IF jh.magic # JOURNAL_MAGIC THEN -1
  ELSE IF jh.endian # JOURNAL_ENDIAN THEN -1
  ELSE IF jh.size # jib.size THEN -1
  ELSE IF jh.start > jh.size \/ jh.end > jh.size THEN -1
  ELSE 1

\* Lines 171-230 of journal_is_valid: the tests on the journal header jh read
\* at the offset the journal info block jib names.
JournalHeaderValid(jh, jib) ==
  IF jh.magic # JOURNAL_MAGIC THEN -1
  ELSE IF jh.endian # JOURNAL_ENDIAN THEN -1
  ELSE IF jh.size # jib.size THEN -1
  ELSE IF jh.start > jh.size \/ jh.end > jh.size THEN -1
  ELSE IF jh.checksum # JHChecksum(jh) THEN -1
  ELSE 1

\* journal_is_valid: 0 = not journaled, 1 = valid, -1 = corrupt.
journal_is_valid(d, h) ==
  IF HFSPLUS_VOL_JOURNALED \notin h.attributes THEN 0
  ELSE IF h.journalInfoBlock = 0 THEN -1
  ELSE IF h.journalInfoBlock >= h.totalBlocks THEN -1
  ELSE IF ~ReadOK(d, h.journalInfoBlock * h.blockSize, SizeofJIB) THEN -1
  ELSE
    LET jib == AsJIB(CellAt(d, h.journalInfoBlock * h.blockSize)) IN
    IF JOURNAL_ON_OTHER_DEVICE \in jib.flags THEN -1
    ELSE IF JOURNAL_NEED_INIT \in jib.flags THEN -1
    ELSE IF jib.offset = 0 THEN -1
    ELSE IF jib.size = 0 THEN -1
    ELSE IF jib.offset + jib.size > h.totalBlocks * h.blockSize THEN -1
    ELSE IF ~ReadOK(d, jib.offset, SizeofJH) THEN -1
    ELSE JournalHeaderValid(AsJH(CellAt(d, jib.offset)), jib)

\* The result of a journal function: its return value, the device it leaves
\* and the device operations it issued, in order.
JRes(ret, d, ops) == [ret |-> ret, d |-> d, ops |-> ops]

\* Lines 284-291 and 353-358: set NEED_INIT in the journal info block and
\* write it back; a failed write is only logged.
MarkNeedInit(d, ops, cx) ==
  LET jib2 == [cx.jib EXCEPT !.flags = @ \cup {JOURNAL_NEED_INIT}]
      w == WriteCells(d, cx.isFile, cx.jibOff, <<jib2>>)
  IN [d |-> w.d, ops |-> Append(ops, OpWrite("jib", cx.jibOff, SizeofJIB))]

\* Variant: the payload is written whatever the mode.
ReplayWrite_AnyMode(d, cx, off, data) == WriteCells(d, cx.isFile, off, data)

\* Lines 433-452: the payload goes to the device in repair mode only.
ReplayWrite(d, cx, off, data) ==
  IF cx.rm THEN WriteCells(d, cx.isFile, off, data)
  ELSE [d |-> d, ok |-> TRUE]

\* The inner loop of journal_replay (lines 378-461): block i of n of the
\* transaction, the next block info being at pos.
RECURSIVE ReplayBlocks(_, _, _, _, _, _)
ReplayBlocks(d, ops, pos, i, n, cx) ==
  IF i >= n THEN [ret |-> 0, d |-> d, ops |-> ops, pos |-> pos]
  ELSE IF ~ReadOK(d, cx.joff + pos, SizeofBI)
  THEN [ret |-> -EIO, d |-> d, ops |-> ops, pos |-> pos]
  ELSE
    LET bi == AsBI(CellAt(d, cx.joff + pos)) IN
    IF bi.bsize = 0 \/ bi.bsize > cx.blockSize * 8
    THEN [ret |-> -EINVAL, d |-> d, ops |-> ops, pos |-> pos]
    ELSE IF bi.bnum >= cx.totalBlocks
    THEN [ret |-> -EINVAL, d |-> d, ops |-> ops, pos |-> pos]
    ELSE IF ~ReadOK(d, cx.joff + pos + SizeofBI, bi.bsize)
    THEN [ret |-> -EIO, d |-> d, ops |-> ops, pos |-> pos + SizeofBI]
    ELSE
      LET data == ReadCells(d, cx.joff + pos + SizeofBI, bi.bsize)
          w == ReplayWrite(d, cx, bi.bnum * cx.blockSize, data)
          ops2 == IF cx.rm
                  THEN Append(ops, OpPayload(bi.bnum * cx.blockSize, bi.bsize,
                                             cx.joff + pos + SizeofBI))
                  ELSE ops
          np == IF bi.next >= cx.jsize THEN SizeofJH ELSE bi.next
      IN IF ~w.ok
         THEN [ret |-> -EIO, d |-> w.d, ops |-> ops2, pos |-> pos + SizeofBI]
         ELSE ReplayBlocks(w.d, ops2, np, i + 1, n, cx)

\* The outer loop of journal_replay (lines 321-465), one pass at a time.  A
\* loop state st has the device, the operations so far, the position of the
\* next block list header, the transactions counted, and whether the loop
\* has been left (then with the value ret).
LoopState(ret, d, ops, pos, count, done) ==
  [ret |-> ret, d |-> d, ops |-> ops, pos |-> pos, count |-> count,
   done |-> done]

\* Lines 459-464: a failed block ends the replay, otherwise the transaction
\* is counted and the loop goes on.
NextTransaction(r, count, cx) ==
  IF r.ret < 0
  THEN LoopState(r.ret, r.d, r.ops, r.pos, count, TRUE)
  ELSE LoopState(0, r.d, r.ops, r.pos, count + 1, FALSE)

\* The loop test of line 321 and one pass of the body.
ReplayPass(st, cx) ==
  IF st.done THEN st
  ELSE IF st.pos = cx.end \/ st.count >= max_transactions
  THEN [st EXCEPT !.ret = 0, !.done = TRUE]
  ELSE IF ~ReadOK(st.d, cx.joff + st.pos, SizeofBLH)
  THEN [st EXCEPT !.ret = -EIO, !.done = TRUE]
  ELSE
    LET blh == AsBLH(CellAt(st.d, cx.joff + st.pos)) IN
    IF BLHChecksum(blh) # blh.checksum
    THEN IF cx.rm
         THEN LET m == MarkNeedInit(st.d, st.ops, cx)
              IN LoopState(-EINVAL, m.d, m.ops, st.pos, st.count, TRUE)
         ELSE [st EXCEPT !.ret = -EINVAL, !.done = TRUE]
    ELSE IF blh.numBlocks = 0 \/ blh.numBlocks > MaxNumBlocks
    THEN [st EXCEPT !.ret = -EINVAL, !.done = TRUE]
    ELSE NextTransaction(ReplayBlocks(st.d, st.ops, st.pos + SizeofBLH, 0,
                                      blh.numBlocks, cx), st.count, cx)

\* n passes from st on.
RECURSIVE ReplayPasses(_, _, _)
ReplayPasses(st, n, cx) ==
  IF n <= 0 \/ st.done THEN st
  ELSE IF n = 1 THEN ReplayPass(st, cx)
  ELSE ReplayPasses(ReplayPasses(st, n \div 2, cx), n - n \div 2, cx)

\* The loop from position pos with count transactions counted: every pass
\* counts a transaction or leaves the loop, so it has been left after
\* max_transactions passes and the test that follows them.
ReplayLoop(d, ops, pos, count, cx) ==
  LET st == ReplayPasses(LoopState(0, d, ops, pos, count, FALSE),
                         max_transactions - count + 1, cx)
  IN [ret |-> st.ret, d |-> st.d, ops |-> st.ops, count |-> st.count]

\* Variant: start is advanced and the stored checksum is left as it was.
UpdateJournalHeader_StaleChecksum(jh, end) == [jh EXCEPT !.start = end]

\* Lines 472-496: the header update that marks the transactions replayed.
UpdateJournalHeader(jh, end) ==
  LET j2 == [jh EXCEPT !.start = end, !.checksum = 0]
  IN [j2 EXCEPT !.checksum = JHChecksum(j2)]

\* Variant: the test that follows the loop is left out.
FinishReplay_NoGuardTest(r, isFile, joff, jh, rm) ==
  IF r.ret < 0 THEN JRes(r.ret, r.d, r.ops)
  ELSE IF rm /\ r.count > 0
  THEN LET w == WriteCells(r.d, isFile, joff,
                           <<UpdateJournalHeader(jh, jh.end)>>)
           ops2 == Append(r.ops, OpWrite("jh", joff, SizeofJH))
       IN IF ~w.ok THEN JRes(-EIO, w.d, ops2)
          ELSE JRes(r.count, w.d, Append(ops2, OpSync))
  ELSE JRes(r.count, r.d, r.ops)

\* Lines 466-507: what journal_replay does once the loop has ended with r.
FinishReplay(r, isFile, joff, jh, rm) ==
  IF r.ret < 0 THEN JRes(r.ret, r.d, r.ops)
  ELSE IF r.count >= max_transactions THEN JRes(-EINVAL, r.d, r.ops)
  ELSE IF rm /\ r.count > 0
  THEN LET w == WriteCells(r.d, isFile, joff,
                           <<UpdateJournalHeader(jh, jh.end)>>)
           ops2 == Append(r.ops, OpWrite("jh", joff, SizeofJH))
       IN IF ~w.ok THEN JRes(-EIO, w.d, ops2)
          ELSE JRes(r.count, w.d, Append(ops2, OpSync))
  ELSE JRes(r.count, r.d, r.ops)

\* Variant: the journal header is rewritten even when the journal is clean.
ReplayPending_NoCleanCheck(d, jh, cx) ==
  IF jh.start = jh.end /\ ~cx.rm THEN JRes(0, d, << >>)
  ELSE IF jh.start = jh.end
  THEN JRes(0, WriteCells(d, cx.isFile, cx.joff,
                          <<UpdateJournalHeader(jh, jh.end)>>).d,
            <<OpWrite("jh", cx.joff, SizeofJH), OpSync>>)
  ELSE FinishReplay(ReplayLoop(d, << >>, jh.start, 0, cx), cx.isFile,
                    cx.joff, jh, cx.rm)

\* Lines 297-312: a journal whose start equals its end is clean and nothing
\* is done; otherwise the transactions from start to end are replayed.
ReplayPending(d, jh, cx) ==
  IF jh.start = jh.end THEN JRes(0, d, << >>)
  ELSE FinishReplay(ReplayLoop(d, << >>, jh.start, 0, cx), cx.isFile,
                    cx.joff, jh, cx.rm)

\* journal_replay(fd, vh, repair_mode): the number of transactions replayed,
\* or a negative errno.
journal_replay(d, isFile, h, rm) ==
  LET jibOff == h.journalInfoBlock * h.blockSize IN
  IF ~ReadOK(d, jibOff, SizeofJIB) THEN JRes(-EIO, d, << >>)
  ELSE
    LET jib == AsJIB(CellAt(d, jibOff)) IN
    IF JOURNAL_ON_OTHER_DEVICE \in jib.flags THEN JRes(-EINVAL, d, << >>)
    ELSE IF ~ReadOK(d, jib.offset, SizeofJH) THEN JRes(-EIO, d, << >>)
    ELSE
      LET jh == AsJH(CellAt(d, jib.offset))
          cx == [joff |-> jib.offset, end |-> jh.end, jsize |-> jh.size,
                 blockSize |-> h.blockSize, totalBlocks |-> h.totalBlocks,
                 rm |-> rm, isFile |-> isFile, jibOff |-> jibOff, jib |-> jib]
      IN
      IF jh.magic # JOURNAL_MAGIC \/ jh.endian # JOURNAL_ENDIAN
      THEN IF rm
           THEN LET m == MarkNeedInit(d, << >>, cx)
                IN JRes(-EINVAL, m.d, m.ops)
           ELSE JRes(-EINVAL, d, << >>)
      ELSE ReplayPending(d, jh, cx)

\* The offset at which the checker writes the backup volume header
\* (journal.c:543, hfsplus_check.c:1038).
backupOffset(h) == (h.totalBlocks - 2) * h.blockSize + 1024

\* journal_disable(fd, vh): clears the journaled bit and the journal info
\* block in *vh and writes *vh (112 bytes) to both header locations.
journal_disable(d, isFile, h) ==
  LET h2 == [h EXCEPT !.attributes = @ \ {HFSPLUS_VOL_JOURNALED},
                      !.journalInfoBlock = 0]
      w1 == WriteHead(d, isFile, VHOffset, h2)
      o1 == <<OpWrite("vh", VHOffset, SizeofVH)>>
      w2 == WriteHead(w1.d, isFile, backupOffset(h2), h2)
      o2 == Append(o1, OpWrite("vhbackup", backupOffset(h2), SizeofVH))
  IN IF ~w1.ok THEN [ret |-> -EIO, d |-> w1.d, ops |-> o1, h |-> h2]
     ELSE IF ~w2.ok THEN [ret |-> -EIO, d |-> w2.d, ops |-> o2, h |-> h2]
     ELSE [ret |-> 0, d |-> w2.d, ops |-> Append(o2, OpSync), h |-> h2]

---------------------------------------------------------------------------
(* hfsplus_check.c *)

\* The clock: hfs_get_safe_time() + 2082844800 in HFS+ seconds, and the
\* "2030" fallback ten years (315360000 s) before it, in model time units.
HfsNow == 100
TenYears == 10
hfs_2030 == HfsNow - TenYears

\* uint32_t arithmetic below zero: totalNodes - 2 wraps to a value near the
\* top of the range (the model's integers stop at 2^31 - 1).
U32(x) == IF x < 0 THEN (x + 2147483647) + 1 ELSE x

PowerOfTwo(n) == n \in {1, 2, 4, 8, 16, 32, 64, 128, 256, 512, 1024, 2048,
                        4096, 8192, 16384, 32768, 65536}

\* check_hfsplus_volume_header: a1..a4 are the operator's answers to the
\* four questions of the phase (used only without -y).  Returns the number
\* of fixes made, or -1, and the header as changed in memory.
check_hfsplus_volume_header(v, o, a1, a2, a3, a4) ==
  LET h0 == v.head
      fixVer == h0.version # HFSPLUS_VERSION /\ o.repair /\ (o.yes \/ a1)
      h1 == IF fixVer THEN [h0 EXCEPT !.version = HFSPLUS_VERSION] ELSE h0
      badBS == h1.blockSize = 0 \/ ~PowerOfTwo(h1.blockSize)
               \/ h1.blockSize < 512
      badTB == h1.totalBlocks = 0
      fixFree == h1.freeBlocks > h1.totalBlocks /\ o.repair /\ (o.yes \/ a2)
      h2 == IF fixFree
            THEN [h1 EXCEPT !.freeBlocks = h1.totalBlocks \div 2] ELSE h1
      fixCD0 == h2.createDate = 0 /\ o.repair /\ (o.yes \/ a3)
      h3 == IF fixCD0 THEN [h2 EXCEPT !.createDate = HfsNow] ELSE h2
      fixCDF == h3.createDate > HfsNow /\ o.repair /\ (o.yes \/ a4)
      h4 == IF fixCDF THEN [h3 EXCEPT !.createDate = hfs_2030] ELSE h3
      badCat == Forks(v).catalogSize > 0 /\ Forks(v).catalogSize < 4096
      badExt == Forks(v).extentsSize > 0 /\ Forks(v).extentsSize < 4096
      fixDirty == HFSPLUS_DIRTY \in h4.attributes /\ o.repair
      h5 == IF fixDirty
            THEN [h4 EXCEPT !.attributes = @ \ {HFSPLUS_DIRTY}] ELSE h4
      n(b) == IF b THEN 1 ELSE 0
  IN IF badBS \/ badTB THEN [ret |-> -1, v |-> [v EXCEPT !.head = h1]]
     ELSE IF badCat \/ badExt THEN [ret |-> -1, v |-> [v EXCEPT !.head = h4]]
     ELSE [ret |-> n(fixVer) + n(fixFree) + n(fixCD0) + n(fixCDF)
                   + n(fixDirty),
           v |-> [v EXCEPT !.head = h5]]

\* The conditions of the header phase that repair mode corrects.
HeaderNeedsRepair(v) ==
  \/ v.head.version # HFSPLUS_VERSION
  \/ v.head.freeBlocks > v.head.totalBlocks
  \/ v.head.createDate = 0
  \/ v.head.createDate > HfsNow
  \/ HFSPLUS_DIRTY \in v.head.attributes

\* Lines 488-502 and 525-537 of check_hfsplus_journal: a corrupt journal or
\* a failed replay (it left device d, after operations ops) is answered by
\* disabling the journal, when repairing and allowed to (aj is the
\* operator's answer to "Disable journaling ...").
Disabled(x, v, ops, valid, replay) ==
  IF x.ret = 0
  THEN [ret |-> 1, d |-> x.d, ops |-> ops \o x.ops,
        v |-> [v EXCEPT !.head = x.h], valid |-> valid, replay |-> replay]
  ELSE [ret |-> -1, d |-> x.d, ops |-> ops \o x.ops, v |-> v,
        valid |-> valid, replay |-> replay]

DisableJournaling(d, isFile, v, o, aj, ops, valid, replay) ==
  IF o.repair /\ (o.yes \/ aj)
  THEN Disabled(journal_disable(d, isFile, v.head), v, ops, valid, replay)
  ELSE [ret |-> -1, d |-> d, ops |-> ops, v |-> v,
        valid |-> valid, replay |-> replay]

\* Lines 508-548: the journal is valid and r is what journal_replay returned.
Replayed(r, isFile, v, o, aj) ==
  IF r.ret < 0
  THEN DisableJournaling(r.d, isFile, v, o, aj, r.ops, 1, r.ret)
  ELSE [ret |-> IF r.ret > 0 THEN 1 ELSE 0, d |-> r.d, ops |-> r.ops,
        v |-> v, valid |-> 1, replay |-> r.ret]

\* check_hfsplus_journal(fd, vh, repair_mode).  Returns the fixes made or -1,
\* the device, the operations issued, the header in memory, and what the
\* journal functions returned (valid, replay; 99 = not called).
JournalChecked(jv, d, isFile, v, o, aj) ==
  IF jv < 0 THEN DisableJournaling(d, isFile, v, o, aj, << >>, jv, 99)
  ELSE IF jv = 0
  THEN [ret |-> 0, d |-> d, ops |-> << >>, v |-> v,
        valid |-> jv, replay |-> 99]
  ELSE Replayed(journal_replay(d, isFile, v.head, o.repair), isFile, v, o, aj)

check_hfsplus_journal(d, isFile, v, o, aj) ==
  JournalChecked(journal_is_valid(d, v.head), d, isFile, v, o, aj)

\* check_hfsplus_catalog_unicode: reads device block 0 as the catalog header
\* node, corrects the BTHeaderRec in repair mode (a1..a5 are the operator's
\* answers) and writes the block back.  Returns the fixes made or -1.
check_hfsplus_catalog_unicode(d, isFile, v, o, a1, a2, a3, a4, a5) ==
  LET bs == v.head.blockSize
      none == [ret |-> -1, d |-> d, ops |-> << >>]
  IN
  IF Forks(v).catalogSize = 0 THEN none
  ELSE IF Forks(v).catalogBlocks = 0 THEN none
  ELSE IF ~ReadOK(d, 0, bs) THEN none
  ELSE
    LET node == ReadCells(d, 0, bs)
        b0 == AsBT(node[1])
        fixNS == b0.nodeSize # bs /\ o.repair /\ (o.yes \/ a1)
        b1 == IF fixNS THEN [b0 EXCEPT !.nodeSize = bs % 65536] ELSE b0
        tn == b1.totalNodes
        fixRoot == b0.rootNode >= tn /\ o.repair /\ (o.yes \/ a2)
        b2 == IF fixRoot THEN [b1 EXCEPT !.rootNode = 1] ELSE b1
        fixFirst == b0.firstLeafNode >= tn /\ o.repair /\ (o.yes \/ a3)
        b3 == IF fixFirst THEN [b2 EXCEPT !.firstLeafNode = 1] ELSE b2
        fixLast == b0.lastLeafNode >= tn /\ o.repair /\ (o.yes \/ a4)
        b4 == IF fixLast THEN [b3 EXCEPT !.lastLeafNode = b3.firstLeafNode]
              ELSE b3
        fixFree == b0.freeNodes > tn /\ o.repair /\ (o.yes \/ a5)
        b5 == IF fixFree THEN [b4 EXCEPT !.freeNodes = U32(tn - 2)] ELSE b4
        n(b) == IF b THEN 1 ELSE 0
        range_errors == n(fixRoot) + n(fixFirst) + n(fixLast) + n(fixFree)
        doWrite == (fixNS \/ range_errors > 0) /\ o.repair
        w == WriteCells(d, isFile, 0, <<b5>> \o Tail(node))
        counts == b5.leafRecords > 0
                  /\ v.head.fileCount + v.head.folderCount = 0
    IN
    IF tn = 0 THEN none
    ELSE IF doWrite /\ ~w.ok
    THEN [ret |-> -1, d |-> w.d, ops |-> <<OpWrite("bt", 0, bs)>>]
    ELSE [ret |-> n(fixNS) + range_errors + n(counts),
          d |-> IF doWrite THEN w.d ELSE d,
          ops |-> IF doWrite THEN <<OpWrite("bt", 0, bs)>> ELSE << >>]

\* The conditions of the catalog phase that repair mode corrects by writing.
CatalogNeedsRepair(d, v) ==
  /\ Forks(v).catalogSize # 0 /\ Forks(v).catalogBlocks # 0
  /\ ReadOK(d, 0, v.head.blockSize)
  /\ LET b == AsBT(CellAt(d, 0)) IN
     /\ b.totalNodes # 0
     /\ \/ b.nodeSize # v.head.blockSize
        \/ b.rootNode >= b.totalNodes
        \/ b.firstLeafNode >= b.totalNodes
        \/ b.lastLeafNode >= b.totalNodes
        \/ b.freeNodes > b.totalNodes

\* check_hfsplus_attributes_file: reads only the header in memory.
check_hfsplus_attributes_file(v) ==
  LET sz == Forks(v).attrSize
      bl == Forks(v).attrBlocks
      n(b) == IF b THEN 1 ELSE 0
  IN IF sz = 0 /\ bl = 0 THEN 0
     ELSE n(sz > 0 /\ bl = 0) + n(sz = 0 /\ bl > 0) + n(bl > 0)

\* repair_hfsplus_volume_header: stamps checkedDate and writes the header
\* (512 bytes) to the primary and the backup location.
repair_hfsplus_volume_header(d, isFile, v) ==
  LET v2 == [v EXCEPT !.head.checkedDate = HfsNow]
      c == VHCell(v2.head, v2.tail)
      w1 == WriteCells(d, isFile, VHOffset, <<c>>)
      o1 == <<OpWrite("vh", VHOffset, SizeofVH)>>
      w2 == WriteCells(w1.d, isFile, backupOffset(v2.head), <<c>>)
      o2 == Append(o1, OpWrite("vhbackup", backupOffset(v2.head), SizeofVH))
  IN IF ~w1.ok THEN [ret |-> -1, d |-> w1.d, ops |-> o1, v |-> v2]
     ELSE IF ~w2.ok THEN [ret |-> -1, d |-> w2.d, ops |-> o2, v |-> v2]
     ELSE [ret |-> 0, d |-> w2.d, ops |-> Append(o2, OpSync), v |-> v2]

\* The exit code of hfsplus_check_volume (lines 294-310).
ExitCode(found, corrected, o) ==
  IF ~found THEN FSCK_OK
  ELSE IF corrected /\ o.repair THEN FSCK_CORRECTED
  ELSE FSCK_UNCORRECTED

---------------------------------------------------------------------------
(* Volumes the checker is run on *)

\* Bounds of the model.
JournalCells == 8
MaxPayloadCells == 2
MaxRuns == 2
MaxCalls == 2

\* Geometries: block size (bytes), total blocks, the journal info block and
\* the byte offset of the journal.  The device is exactly the volume.
\*   512:  cell 2 header, block 3 info block, cells 4.. journal
\*   1024: block 1 header, block 2 info block, cells 6.. journal
\*   2048: block 0 holds the header too, block 1 info block, cells 8.. journal
Geoms ==
  { [bs |-> 512, tb |-> JournalCells + 7, jibBlock |-> 3, joff |-> 2048],
    [bs |-> 1024, tb |-> (JournalCells + 1) \div 2 + 5, jibBlock |-> 2,
     joff |-> 3072],
    [bs |-> 2048, tb |-> (JournalCells + 3) \div 4 + 4, jibBlock |-> 1,
     joff |-> 4096] }

GCells(g) == (g.tb * g.bs) \div SectorSize
BlockCells(g) == g.bs \div SectorSize
JSize == JournalCells * SectorSize

\* Cell indices (0-based) of the journal info block's block and the journal.
JournalArea(g) ==
  { c \in 0..(GCells(g) - 1) :
      \/ c \div BlockCells(g) = g.jibBlock
      \/ (c >= g.joff \div SectorSize
          /\ c < g.joff \div SectorSize + JournalCells) }

\* Block writes a transaction may carry: n cells to block bnum.  The journal
\* does not log writes to its own blocks.
Blk(g) ==
  { b \in [bnum : 0..(g.tb - 1), n : 1..MaxPayloadCells] :
      \A c \in (b.bnum * BlockCells(g))..(b.bnum * BlockCells(g) + b.n - 1) :
         c \notin JournalArea(g) }

RECURSIVE SumN(_)
SumN(blocks) == IF blocks = << >> THEN 0
                ELSE 1 + Head(blocks).n + SumN(Tail(blocks))
RECURSIVE TxsCells(_)
TxsCells(txs) == IF txs = << >> THEN 0
                 ELSE 1 + SumN(Head(txs)) + TxsCells(Tail(txs))

\* The transaction lists of the model: one or two block writes, in one or
\* two transactions, ending before the end of the journal.
Shapes(g) ==
  { t \in ({ << <<b>> >> : b \in Blk(g) }
           \cup { << <<b[1], b[2]>> >> : b \in Blk(g) \X Blk(g) }
           \cup { << <<b[1]>>, <<b[2]>> >> : b \in Blk(g) \X Blk(g) }) :
      TxsCells(t) <= JournalCells - 2 }

\* The payload of block write number tag, n cells to cell c onwards: a newer
\* volume header for the header sector, a newer header node for sector 0,
\* file data elsewhere.
PayloadCell(g, c, v) ==
  IF c = 2 THEN VHCell([signature |-> HFSPLUS_SIGNATURE,
                        version |-> HFSPLUS_VERSION,
                        attributes |-> {HFSPLUS_VOL_JOURNALED},
                        journalInfoBlock |-> g.jibBlock,
                        createDate |-> HfsNow - 1, checkedDate |-> HfsNow - 1,
                        fileCount |-> 3, folderCount |-> 1,
                        blockSize |-> g.bs, totalBlocks |-> g.tb,
                        freeBlocks |-> 0],
                       [catalogSize |-> 16384, catalogBlocks |-> 4,
                        extentsSize |-> 4096, attrSize |-> 0, attrBlocks |-> 0])
  ELSE IF c = 0 THEN [k |-> "bt", rootNode |-> 1, leafRecords |-> 4,
                      firstLeafNode |-> 1, lastLeafNode |-> 1,
                      nodeSize |-> g.bs, totalNodes |-> 4, freeNodes |-> 2]
  ELSE DataCell(v)
Payload(g, b, tag) ==
  [j \in 1..b.n |->
     PayloadCell(g, b.bnum * (g.bs \div SectorSize) + j - 1,
                 100 + 10 * tag + j)]

\* On-disk form of the block writes of one transaction, the first block
\* info being at journal position p.
RECURSIVE BlocksOnDisk(_, _, _, _)
BlocksOnDisk(g, blocks, p, tag) ==
  IF blocks = << >> THEN << >>
  ELSE LET b == Head(blocks)
           nxt == p + SizeofBI + b.n * SectorSize
       IN << [k |-> "bi", bnum |-> b.bnum, bsize |-> b.n * SectorSize,
              next |-> nxt] >>
          \o Payload(g, b, tag)
          \o BlocksOnDisk(g, Tail(blocks), nxt, tag + 1)

RECURSIVE TxsOnDisk(_, _, _, _)
TxsOnDisk(g, txs, p, tag) ==
  IF txs = << >> THEN << >>
  ELSE LET tx == Head(txs)
           blh0 == [k |-> "blh", bsize |-> 1, numBlocks |-> Len(tx),
                    checksum |-> 0]
           blh == [blh0 EXCEPT !.checksum = BLHChecksum(blh0)]
       IN <<blh>> \o BlocksOnDisk(g, tx, p + SizeofBLH, tag)
          \o TxsOnDisk(g, Tail(txs), p + (1 + SumN(tx)) * SectorSize,
                       tag + Len(tx))

GoodJH(start, end) ==
  LET j == [k |-> "jh", magic |-> JOURNAL_MAGIC, endian |-> JOURNAL_ENDIAN,
            start |-> start, end |-> end, size |-> JSize,
            blhdrSize |-> SizeofBLH, checksum |-> 0, jhdrSize |-> SizeofJH]
  IN [j EXCEPT !.checksum = JHChecksum(j)]

\* The journal area holding the transactions txs as pending.
JournalOnDisk(g, txs) ==
  LET body == TxsOnDisk(g, txs, SizeofJH, 0)
  IN <<GoodJH(SizeofJH, SizeofJH + Len(body) * SectorSize)>> \o body
     \o ZeroCells(JournalCells - 1 - Len(body))

\* A journal whose one pending transaction crosses the end of the circular
\* area: block list header and block info in the last sectors but one, the
\* first payload sector in the last sector, the second one after the
\* journal header; end follows it.
WrapTx == << << [bnum |-> 0, n |-> 2] >> >>
WrapStart == (JournalCells - 3) * SectorSize
WrappedJournal(g, txs) ==
  LET b == txs[1][1]
      pay == Payload(g, b, 0)
      blh0 == [k |-> "blh", bsize |-> 1, numBlocks |-> 1, checksum |-> 0]
      blh == [blh0 EXCEPT !.checksum = BLHChecksum(blh0)]
      bi == [k |-> "bi", bnum |-> b.bnum, bsize |-> b.n * SectorSize,
             next |-> SizeofJH + SectorSize]
  IN [i \in 1..JournalCells |->
        CASE i = 1 -> GoodJH(WrapStart, SizeofJH + SectorSize)
          [] i = 2 -> pay[2]
          [] i = JournalCells - 2 -> blh
          [] i = JournalCells - 1 -> bi
          [] i = JournalCells -> pay[1]
          [] OTHER -> ZeroCell]

\* Ways in which the journal of a scenario is damaged.
JournalDefects ==
  { "none", "badmagic", "badendian", "jhsum", "sizemis", "startbig",
    "endbig", "jibzero", "jibbig",
    "otherdev", "needinit", "blhsum", "nblocks0", "bsize0", "bsizebig",
    "bnumbig", "cycle" }

\* A journal that logs a write to one of its own blocks: the second block
\* of its transaction replaces the first block info (the sector after the
\* block list header) by one naming another target.  Only where that
\* sector starts a block.
SelfShapes(g) ==
  IF (g.joff + SizeofJH + SizeofBLH) % g.bs = 0
  THEN { << << [bnum |-> g.tb - 1, n |-> 1], [bnum |-> g.tb - 1, n |-> 1] >> >> }
  ELSE {}

DamageJournal(j, defect, g) ==
  CASE defect = "badmagic" -> [j EXCEPT ![1].magic = 0]
    [] defect = "badendian" -> [j EXCEPT ![1].endian = 0]
    [] defect = "jhsum" -> [j EXCEPT ![1].checksum = @ + 1]
    [] defect = "sizemis" ->
         [j EXCEPT ![1] = [GoodJH(@.start, @.end) EXCEPT
                             !.size = JSize + SectorSize,
                             !.checksum = @ + SectorSize]]
    [] defect = "startbig" ->
         [j EXCEPT ![1] = [@ EXCEPT !.start = JSize + SectorSize,
                                    !.checksum = @ + JSize]]
    [] defect = "endbig" ->
         [j EXCEPT ![1] = [@ EXCEPT !.end = JSize + SectorSize,
                                    !.checksum = @ + JSize + SectorSize
                                                 - j[1].end]]
    [] defect = "blhsum" -> [j EXCEPT ![2].checksum = @ + 1]
    [] defect = "nblocks0" ->
         [j EXCEPT ![2].numBlocks = 0, ![2].checksum = 65536]
    [] defect = "bsize0" -> [j EXCEPT ![3].bsize = 0]
    [] defect = "bsizebig" -> [j EXCEPT ![3].bsize = 8 * g.bs + SectorSize]
    [] defect = "bnumbig" -> [j EXCEPT ![3].bnum = g.tb]
    [] defect = "cycle" -> [j EXCEPT ![3].next = j[1].start]
    [] defect = "bnumbig2" -> [j EXCEPT ![5].bnum = g.tb]
    [] defect = "selfmod" ->
         [j EXCEPT ![5].bnum = (g.joff + SizeofJH + SizeofBLH) \div g.bs,
                   ![6] = [j[3] EXCEPT !.bnum = g.tb - 2]]
    [] OTHER -> j

GoodBT(g) ==
  [k |-> "bt", rootNode |-> 1, leafRecords |-> 1, firstLeafNode |-> 1,
   lastLeafNode |-> 1, nodeSize |-> g.bs, totalNodes |-> 4, freeNodes |-> 2]

\* Ways in which block 0, read by the catalog phase, is damaged.
CatalogDefects ==
  { "none", "nodesize", "root", "first", "last", "free", "nonodes",
    "catsize0", "catblocks0", "nocounts", "keyorder", "keyequal",
    "onenode" }

\* The first leaf node of the catalog (node 1, so the block after block 0):
\* its keys in record order.  Present where that block is free (block size
\* 512).
LeafCell(defect) ==
  [k |-> "leaf",
   keys |-> CASE defect = "keyorder" -> <<2, 1>>
              [] defect = "keyequal" -> <<1, 1>>
              [] OTHER -> <<1, 2>>]

DamageBT(b, defect) ==
  CASE defect = "nodesize" -> [b EXCEPT !.nodeSize = 0]
    [] defect = "root" -> [b EXCEPT !.rootNode = 7]
    [] defect = "first" -> [b EXCEPT !.firstLeafNode = 7]
    [] defect = "last" -> [b EXCEPT !.lastLeafNode = 7]
    [] defect = "free" -> [b EXCEPT !.freeNodes = 7]
    [] defect = "nonodes" -> [b EXCEPT !.totalNodes = 0]
    [] defect = "onenode" -> [b EXCEPT !.totalNodes = 1]
    [] OTHER -> b

\* Ways in which the volume header is damaged: in both copies, or
\* ("sigprimary") in the primary only.
HeaderDefects ==
  { "none", "version", "free", "free0", "cdate0", "cdatefuture", "dirty",
    "verdirty", "blocksize", "totalblocks", "catsmall", "attrs",
    "sigprimary", "sigboth" }

GoodHead(g, journaled) ==
  [signature |-> HFSPLUS_SIGNATURE, version |-> HFSPLUS_VERSION,
   attributes |-> IF journaled THEN {HFSPLUS_VOL_JOURNALED} ELSE {VOL_UNMOUNTED},
   journalInfoBlock |-> IF journaled THEN g.jibBlock ELSE 0,
   createDate |-> HfsNow - 1, checkedDate |-> HfsNow - 1,
   fileCount |-> 0, folderCount |-> 1,
   blockSize |-> g.bs, totalBlocks |-> g.tb, freeBlocks |-> 1]

\* The allocation file of a scenario: one sector, in the block after the
\* journal, with all blocks but one marked used (GoodHead has freeBlocks 1).
\* A sector of the bitmap is modelled by the number of its bits that are set.
AllocCell(g) == g.joff \div SectorSize + JournalCells
GoodBitmap(g) == [k |-> "bitmap", used |-> g.tb - 1]

GoodTail == [catalogSize |-> 16384, catalogBlocks |-> 4, extentsSize |-> 4096,
             attrSize |-> 0, attrBlocks |-> 0]

DamageHead(h, defect, jdefect, g) ==
  LET h1 == CASE defect = "version" -> [h EXCEPT !.version = 5]
              [] defect = "free" -> [h EXCEPT !.freeBlocks = g.tb + 1]
              [] defect = "free0" -> [h EXCEPT !.freeBlocks = 0]
              [] defect = "cdate0" -> [h EXCEPT !.createDate = 0]
              [] defect = "cdatefuture" -> [h EXCEPT !.createDate = HfsNow + 1]
              [] defect = "dirty" ->
                   [h EXCEPT !.attributes = @ \cup {HFSPLUS_DIRTY}]
              [] defect = "verdirty" ->
                   [h EXCEPT !.version = 5,
                             !.attributes = @ \cup {HFSPLUS_DIRTY}]
              [] defect = "blocksize" -> [h EXCEPT !.blockSize = 768]
              [] defect = "totalblocks" -> [h EXCEPT !.totalBlocks = 0]
              [] defect \in {"sigprimary", "sigboth"} ->
                   [h EXCEPT !.signature = 0]
              [] OTHER -> h
  IN CASE jdefect = "jibzero" -> [h1 EXCEPT !.journalInfoBlock = 0]
       [] jdefect = "jibbig" -> [h1 EXCEPT !.journalInfoBlock = g.tb]
       [] OTHER -> h1

DamageTail(t, defect, cdefect) ==
  LET t1 == CASE defect = "catsmall" -> [t EXCEPT !.catalogSize = 2048]
              [] defect = "attrs" -> [t EXCEPT !.attrSize = 4096]
              [] OTHER -> t
  IN CASE cdefect = "catsize0" -> [t1 EXCEPT !.catalogSize = 0]
       [] cdefect = "catblocks0" -> [t1 EXCEPT !.catalogBlocks = 0]
       [] OTHER -> t1

\* The device of a scenario sc = [g, hd, cd, jd, txs]: txs = << >> is a
\* volume without a journal or, with jd = "clean", an empty journal.
Volume(sc) ==
  LET g == sc.g
      journaled == sc.jd # "nojournal"
      h0 == GoodHead(g, journaled)
      h1 == IF sc.cd = "nocounts" THEN [h0 EXCEPT !.folderCount = 0] ELSE h0
      vhc == VHCell(DamageHead(h1, sc.hd, sc.jd, g),
                    DamageTail(GoodTail, sc.hd, sc.cd))
      alt == IF sc.hd = "sigprimary"
             THEN VHCell(DamageHead(h1, "none", sc.jd, g),
                         DamageTail(GoodTail, "none", sc.cd))
             ELSE vhc
      jib0 == [k |-> "jib", flags |-> {}, offset |-> g.joff, size |-> JSize]
      jib == CASE sc.jd = "otherdev" ->
                    [jib0 EXCEPT !.flags = {JOURNAL_ON_OTHER_DEVICE}]
               [] sc.jd = "needinit" ->
                    [jib0 EXCEPT !.flags = {JOURNAL_NEED_INIT}]
               [] OTHER -> jib0
      jrn == IF sc.jd = "wrap" THEN WrappedJournal(g, sc.txs)
             ELSE DamageJournal(JournalOnDisk(g, sc.txs), sc.jd, g)
      jc == g.joff \div SectorSize
  IN [i \in 1..GCells(g) |->
        LET c == i - 1 IN
        IF c = 0 THEN DamageBT(GoodBT(g), sc.cd)
        ELSE IF c = 1 THEN (IF g.bs = 512 THEN LeafCell(sc.cd) ELSE ZeroCell)
        ELSE IF c = 2 THEN vhc
        ELSE IF c = GCells(g) - 2 THEN alt
        ELSE IF journaled /\ c = g.jibBlock * BlockCells(g) THEN jib
        ELSE IF journaled /\ c >= jc /\ c < jc + JournalCells
             THEN jrn[c - jc + 1]
        ELSE IF c = AllocCell(g) THEN GoodBitmap(g)
        ELSE DataCell(c)]

OneTx(g) == << << [bnum |-> g.tb - 2, n |-> 1] >> >>
\* One transaction of two block writes; the defect "bnumbig2" is in the
\* second block info.
TwoBlockTx(g) ==
  << << [bnum |-> g.tb - 2, n |-> 1], [bnum |-> g.tb - 1, n |-> 1] >> >>

\* The scenarios: every pending-transaction list on an otherwise sound
\* volume; every journal defect; every header defect with every catalog
\* defect, without a journal and with one pending transaction.
Scenarios ==
  UNION { { [g |-> g, hd |-> "none", cd |-> "none", jd |-> "none", txs |-> t]
              : t \in Shapes(g) }
          \cup { [g |-> g, hd |-> "none", cd |-> "none", jd |-> jd,
                  txs |-> OneTx(g)] : jd \in JournalDefects }
          \cup { [g |-> g, hd |-> "none", cd |-> "none", jd |-> "selfmod",
                  txs |-> t] : t \in SelfShapes(g) }
          \cup { [g |-> g, hd |-> "none", cd |-> "none", jd |-> "wrap",
                  txs |-> WrapTx] }
          \cup { [g |-> g, hd |-> "none", cd |-> "none", jd |-> "bnumbig2",
                  txs |-> TwoBlockTx(g)] }
          \cup { [g |-> g, hd |-> hd, cd |-> cd, jd |-> jd, txs |-> t]
                   : hd \in HeaderDefects, cd \in CatalogDefects,
                     jd \in {"nojournal"}, t \in {<< >>} }
          \cup { [g |-> g, hd |-> hd, cd |-> cd, jd |-> "none", txs |-> t]
                   : hd \in HeaderDefects, cd \in {"none", "root", "nonodes"},
                     t \in {<< >>, OneTx(g)} }
          : g \in Geoms }

---------------------------------------------------------------------------
(* mkfs.hfs+ : mkfs_hfs_format.c *)

\* Device sizes (in sectors) the formatter is run on; all are below 1 GiB,
\* so the block size is 512.
FormatSizes == {24, 28}
NODE_SIZE == 4096
NodeCells == NODE_SIZE \div SectorSize

\* calculate_hfsplus_volume_parameters for a device of n sectors.
calculate_hfsplus_volume_parameters(n, journaling) ==
  LET bs == 512
      tb == (n * SectorSize) \div bs
      alloc == (((tb + 7) \div 8 + bs - 1) \div bs) * bs
      sysblocks == alloc \div bs + 4 + 1 + 1 + 3
  IN [device_size |-> n * SectorSize, sector_size |-> 512, block_size |-> bs,
      total_blocks |-> tb, allocation_file_size |-> alloc,
      catalog_file_size |-> bs * 4, extents_file_size |-> bs,
      attributes_file_size |-> bs, free_blocks |-> tb - sysblocks,
      creation_date |-> HfsNow, enable_journaling |-> journaling]

\* The sector write_hfsplus_volume_header writes, as the checker's struct
\* reads it.  The formatter stores its dates at bytes 12, 16 and 24 and its
\* counts at bytes 28 and 32; the struct has journalInfoBlock at 12,
\* createDate at 16, checkedDate at 28, fileCount at 32, folderCount at 36.
\* The fork descriptors are left zero.
write_hfsplus_volume_header(pa) ==
  VHCell([signature |-> HFSPLUS_SIGNATURE, version |-> HFSPLUS_VERSION,
          attributes |-> IF pa.enable_journaling
                         THEN {VOL_UNMOUNTED, HFSPLUS_VOL_JOURNALED}
                         ELSE {VOL_UNMOUNTED},
          journalInfoBlock |-> pa.creation_date,
          createDate |-> pa.creation_date, checkedDate |-> 0,
          fileCount |-> 1, folderCount |-> 0,
          blockSize |-> pa.block_size, totalBlocks |-> pa.total_blocks,
          freeBlocks |-> pa.free_blocks],
         ZeroTail)

bitmap_blocks(pa) ==
  ((pa.total_blocks + 7) \div 8 + pa.block_size - 1) \div pa.block_size

\* A 4096-byte B-tree header node: the header record in the first sector,
\* the map record and the record offsets in the last.
HeaderNode(root, leafRecs, total, free) ==
  << [k |-> "bt", rootNode |-> root, leafRecords |-> leafRecs,
      firstLeafNode |-> root, lastLeafNode |-> root, nodeSize |-> NODE_SIZE,
      totalNodes |-> total, freeNodes |-> free] >>
  \o ZeroCells(NodeCells - 2) \o << [k |-> "map"] >>

LeafNode == << [k |-> "leaf", numRecords |-> 1] >> \o ZeroCells(NodeCells - 2)
            \o << [k |-> "offsets"] >>

\* One write of the formatter: a failure stops the run (goto cleanup).
FmtWrite(st, isFile, what, off, cells) ==
  IF ~st.ok THEN st
  ELSE LET w == WriteCells(st.d, isFile, off, cells)
       IN [d |-> w.d, ok |-> w.ok,
           ops |-> Append(st.ops,
                          OpWrite(what, off, Len(cells) * SectorSize))]

RECURSIVE FmtZeroNodes(_, _, _, _, _)
FmtZeroNodes(st, isFile, off, i, total) ==
  IF i >= total THEN st
  ELSE FmtZeroNodes(FmtWrite(st, isFile, "node", off, ZeroCells(NodeCells)),
                    isFile, off + NODE_SIZE, i + 1, total)

\* format_hfsplus_volume: boot blocks, volume header, allocation bitmap,
\* catalog file, extents file, alternate volume header, one fsync.
format_hfsplus_volume(d, isFile, pa) ==
  LET s0 == [d |-> d, ok |-> TRUE, ops |-> << >>]
      s1 == FmtWrite(s0, isFile, "boot", 0, <<BootCell, ZeroCell>>)
      s2 == FmtWrite(s1, isFile, "vh", VHOffset,
                     <<write_hfsplus_volume_header(pa)>>)
      bmOff == 3 * pa.sector_size
      used == pa.allocation_file_size \div pa.block_size + 4 + 1 + 1
      s3 == FmtWrite(s2, isFile, "bitmap", bmOff,
                     << [k |-> "bitmap",
                         used |-> IF used < pa.total_blocks THEN used
                                  ELSE pa.total_blocks] >>
                     \o ZeroCells(bitmap_blocks(pa)
                                  * (pa.block_size \div SectorSize) - 1))
      catOff == bmOff + bitmap_blocks(pa) * pa.block_size
      catNodes == pa.catalog_file_size \div NODE_SIZE
      s4 == FmtWrite(s3, isFile, "catalog", catOff,
                     HeaderNode(1, 1, catNodes, U32(catNodes - 2)))
      s5 == FmtWrite(s4, isFile, "leaf", catOff + NODE_SIZE, LeafNode)
      s6 == FmtZeroNodes(s5, isFile, catOff + 2 * NODE_SIZE, 2, catNodes)
      extOff == catOff + pa.catalog_file_size
      extNodes == pa.extents_file_size \div NODE_SIZE
      s7 == FmtWrite(s6, isFile, "extents", extOff,
                     HeaderNode(0, 0, extNodes, U32(extNodes - 1)))
      s8 == FmtZeroNodes(s7, isFile, extOff + NODE_SIZE, 1, extNodes)
      s9 == FmtWrite(s8, isFile, "vhalt", pa.device_size - 1024,
                     <<write_hfsplus_volume_header(pa)>>)
  IN IF s9.ok THEN [ret |-> 0, d |-> s9.d, ops |-> Append(s9.ops, OpSync)]
     ELSE [ret |-> -1, d |-> s9.d, ops |-> s9.ops]

---------------------------------------------------------------------------
(* The checker, the formatter and the journal functions as a state machine *)

VARIABLES
  scen,              \* the scenario the device was built from
  mode,              \* "hfsplus" | "mkfs" | "unit" | "hfs"
  dev,               \* the device: a sequence of sectors
  isFile,            \* the device is an image file (grows on write past end)
  opts,              \* check_options: [repair, yes]
  pc,                \* where the run stands
  vh,                \* the volume header in memory
  errors_found,
  errors_corrected,
  exitCode,          \* what the run returned, -1 while running
  trace,             \* device operations of the run, in order
  phases,            \* phases executed in the run, in order
  critical,          \* phases of the run that returned < 0
  dev0,              \* the device when the run started
  runs,              \* runs started
  roDetected,        \* a read-only phase saw a condition repair would fix
  last,              \* the latest direct call of a journal function
  prev,              \* the call before it
  calls              \* direct calls made

vars == << scen, mode, dev, isFile, opts, pc, vh, errors_found,
           errors_corrected, exitCode, trace, phases, critical, dev0, runs,
           roDetected, last, prev, calls >>

Opts == [repair : BOOLEAN, yes : BOOLEAN]
NoCall == [fn |-> "none", rm |-> FALSE, ret |-> 0, valid |-> 0,
           before |-> << >>, ops |-> << >>]
NoVH == [head |-> ZeroHead, tail |-> ZeroTail]
BlankScen(n) == [g |-> [bs |-> 512, tb |-> n, jibBlock |-> 0, joff |-> 0],
                 hd |-> "none", cd |-> "none", jd |-> "blank", txs |-> << >>]
HfsScen == [g |-> [bs |-> 512, tb |-> 0, jibBlock |-> 0, joff |-> 0],
            hd |-> "none", cd |-> "none", jd |-> "hfs", txs |-> << >>]

Init ==
  /\ \/ /\ mode = "hfsplus" /\ scen \in Scenarios /\ pc = "idle"
        /\ dev = Volume(scen) /\ opts \in Opts
     \/ /\ mode = "unit" /\ scen \in {sc \in Scenarios : sc.jd # "nojournal"}
        /\ pc = "unit" /\ dev = Volume(scen)
        /\ opts = [repair |-> TRUE, yes |-> TRUE]
     \/ /\ mode = "mkfs" /\ scen \in {BlankScen(n) : n \in FormatSizes}
        /\ pc = "format" /\ dev = ZeroCells(scen.g.tb) /\ opts \in Opts
     \/ /\ mode = "hfs" /\ scen = HfsScen /\ pc = "hfs1" /\ dev = << >>
        /\ opts \in Opts
  /\ isFile \in BOOLEAN
  /\ vh = NoVH
  /\ errors_found = FALSE /\ errors_corrected = FALSE
  /\ exitCode = -1
  /\ trace = << >> /\ phases = << >> /\ critical = {}
  /\ dev0 = dev
  /\ runs = 0
  /\ roDetected = FALSE
  /\ last = NoCall /\ prev = NoCall /\ calls = 0

Harness == << scen, mode, isFile, last, prev, calls >>

\* mkfs_hfsplus_format, lines 253-275: the formatter returned r.
Formatted(r, journaling) ==
  /\ dev' = r.d
  /\ trace' = r.ops
  /\ last' = [fn |-> "format", rm |-> journaling, ret |-> r.ret,
              valid |-> 0, before |-> dev, ops |-> r.ops]
  /\ pc' = IF r.ret = 0 THEN "idle" ELSE "done"
  /\ exitCode' = IF r.ret = 0 THEN -1 ELSE 1

\* mkfs.hfs+ [-j] on the blank device (mkfs_hfsplus_format).
Format(journaling) ==
  /\ pc = "format"
  /\ Formatted(format_hfsplus_volume(
                 dev, isFile,
                 calculate_hfsplus_volume_parameters(Len(dev), journaling)),
               journaling)
  /\ UNCHANGED << scen, mode, isFile, opts, vh, errors_found,
                  errors_corrected, phases, critical, dev0, runs, roDetected,
                  prev, calls >>

\* hfsplus_check_volume, lines 92-141: open, read the header, check the
\* signature.
Open ==
  /\ pc = "idle"
  /\ runs' = runs + 1
  /\ dev0' = dev
  /\ trace' = << >> /\ phases' = << >> /\ critical' = {}
  /\ errors_found' = FALSE /\ errors_corrected' = FALSE
  /\ roDetected' = FALSE
  /\ IF ~ReadOK(dev, VHOffset, SizeofVH)
     THEN /\ pc' = "done" /\ exitCode' = FSCK_OPERATIONAL_ERROR /\ vh' = NoVH
     ELSE LET v == ReadVH(CellAt(dev, VHOffset)) IN
          /\ vh' = v
          /\ IF v.head.signature # HFSPLUS_SIGNATURE
             THEN pc' = "done" /\ exitCode' = FSCK_OPERATIONAL_ERROR
             ELSE pc' = "header" /\ exitCode' = -1
  /\ UNCHANGED << dev, opts >>
  /\ UNCHANGED Harness

\* What the driver does with a phase's result (lines 146-159 and alike).
Found(result) == errors_found \/ result # 0
Corrected(result) == errors_corrected \/ (result > 0 /\ opts.repair)

\* Phase 1 (lines 142-159): a negative result ends the run with 4.
CheckVolumeHeader(a1, a2, a3, a4) ==
  /\ pc = "header"
  /\ LET r == check_hfsplus_volume_header(vh, opts, a1, a2, a3, a4) IN
     /\ vh' = r.v
     /\ phases' = Append(phases, "header")
     /\ roDetected' = (roDetected \/ (~opts.repair /\ HeaderNeedsRepair(vh)))
     /\ IF r.ret < 0
        THEN /\ critical' = critical \cup {"header"}
             /\ pc' = "done" /\ exitCode' = FSCK_UNCORRECTED
             /\ UNCHANGED << errors_found, errors_corrected >>
        ELSE /\ critical' = critical
             /\ pc' = "journal" /\ exitCode' = -1
             /\ errors_found' = Found(r.ret)
             /\ errors_corrected' = Corrected(r.ret)
  /\ UNCHANGED << dev, opts, trace, dev0, runs >>
  /\ UNCHANGED Harness

\* Lines 167-180: what the driver does with the journal phase's result r.
JournalPhaseDone(r) ==
  /\ dev' = r.d /\ vh' = r.v
  /\ trace' = trace \o r.ops
  /\ phases' = Append(phases, "journal")
  /\ critical' = IF r.ret < 0 THEN critical \cup {"journal"} ELSE critical
  /\ errors_found' = Found(r.ret)
  /\ errors_corrected' = Corrected(r.ret)

\* Phase 2 (lines 161-180, 237-239): only on a journaled volume.
CheckJournal(aj) ==
  /\ pc = "journal"
  /\ pc' = "catalog"
  /\ IF HFSPLUS_JOURNALED \in vh.head.attributes
     THEN JournalPhaseDone(check_hfsplus_journal(dev, isFile, vh, opts, aj))
     ELSE UNCHANGED << dev, vh, trace, phases, critical, errors_found,
                       errors_corrected >>
  /\ UNCHANGED << opts, exitCode, dev0, runs, roDetected >>
  /\ UNCHANGED Harness

\* Variant: a negative result of the catalog phase is dropped.
CatalogPhaseDone_CriticalDropped(r) ==
  /\ dev' = r.d
  /\ trace' = trace \o r.ops
  /\ phases' = Append(phases, "catalog")
  /\ critical' = IF r.ret < 0 THEN critical \cup {"catalog"} ELSE critical
  /\ errors_found' = (errors_found \/ r.ret > 0)
  /\ errors_corrected' = Corrected(r.ret)

\* Lines 247-258: what the driver does with the catalog phase's result r.
CatalogPhaseDone(r) ==
  /\ dev' = r.d
  /\ trace' = trace \o r.ops
  /\ phases' = Append(phases, "catalog")
  /\ critical' = IF r.ret < 0 THEN critical \cup {"catalog"} ELSE critical
  /\ errors_found' = Found(r.ret)
  /\ errors_corrected' = Corrected(r.ret)

\* Phase 3 (lines 241-258).
CheckCatalog(a1, a2, a3, a4, a5) ==
  /\ pc = "catalog"
  /\ pc' = "attributes"
  /\ CatalogPhaseDone(check_hfsplus_catalog_unicode(dev, isFile, vh, opts,
                                                    a1, a2, a3, a4, a5))
  /\ roDetected' = (roDetected
                    \/ (~opts.repair /\ CatalogNeedsRepair(dev, vh)))
  /\ UNCHANGED << vh, opts, exitCode, dev0, runs >>
  /\ UNCHANGED Harness

\* Phase 4 (lines 260-277).
CheckAttributes ==
  /\ pc = "attributes"
  /\ pc' = "finalize"
  /\ LET r == check_hfsplus_attributes_file(vh) IN
     /\ phases' = Append(phases, "attributes")
     /\ errors_found' = Found(r)
     /\ errors_corrected' = Corrected(r)
  /\ UNCHANGED << dev, vh, opts, exitCode, trace, critical, dev0, runs,
                  roDetected >>
  /\ UNCHANGED Harness

\* Lines 284-288 and 294-310: the header rewrite returned r.
HeaderRewritten(r) ==
  /\ dev' = r.d /\ vh' = r.v
  /\ trace' = trace \o r.ops
  /\ phases' = Append(phases, "finalize")
  /\ exitCode' = IF r.ret < 0 THEN FSCK_OPERATIONAL_ERROR
                 ELSE ExitCode(errors_found, errors_corrected, opts)

\* Lines 279-310: rewrite the header if something was corrected; exit code.
Finalize ==
  /\ pc = "finalize"
  /\ pc' = "done"
  /\ IF errors_corrected /\ opts.repair
     THEN HeaderRewritten(repair_hfsplus_volume_header(dev, isFile, vh))
     ELSE /\ exitCode' = ExitCode(errors_found, errors_corrected, opts)
          /\ UNCHANGED << dev, vh, trace, phases >>
  /\ UNCHANGED << opts, errors_found, errors_corrected, critical, dev0, runs,
                  roDetected >>
  /\ UNCHANGED Harness

\* The checker is run again on the device as the last run left it.
Rerun ==
  /\ pc = "done" /\ mode \in {"hfsplus", "mkfs"}
  /\ runs >= 1 /\ runs < MaxRuns
  /\ pc' = "idle"
  /\ UNCHANGED << dev, vh, opts, errors_found, errors_corrected, exitCode,
                  trace, phases, critical, dev0, runs, roDetected >>
  /\ UNCHANGED Harness

\* hfs_check_volume (hfs_check.c): the six phases in the order of the code.
\* What a phase function finds is an input: res < 0 critical, res > 0 the
\* number of errors it fixed, 0 nothing.
HfsPhases == << "mdb", "structure", "bitmap", "extents", "catalog",
                "consistency" >>
HfsPc(i) == CASE i = 1 -> "hfs1" [] i = 2 -> "hfs2" [] i = 3 -> "hfs3"
              [] i = 4 -> "hfs4" [] i = 5 -> "hfs5" [] i = 6 -> "hfs6"
              [] OTHER -> "hfsclose"

\* Lines 124-241: phase i; only phase 1 returns on a negative result.
HfsCheckPhase(i, res) ==
  /\ pc = HfsPc(i) /\ i \in 1..6
  /\ phases' = Append(phases, HfsPhases[i])
  /\ critical' = IF res < 0 THEN critical \cup {HfsPhases[i]} ELSE critical
  /\ runs' = IF i = 1 THEN runs + 1 ELSE runs
  /\ IF i = 1 /\ res < 0
     THEN /\ pc' = "done" /\ exitCode' = FSCK_UNCORRECTED
          /\ UNCHANGED << errors_found, errors_corrected >>
     ELSE /\ pc' = HfsPc(i + 1) /\ exitCode' = -1
          /\ errors_found' = Found(res)
          /\ errors_corrected' = Corrected(res)
  /\ UNCHANGED << dev, vh, opts, trace, dev0, roDetected >>
  /\ UNCHANGED Harness

\* Lines 243-281: close the volume; the exit code.
HfsClose(closed) ==
  /\ pc = "hfsclose"
  /\ pc' = "done"
  /\ phases' = Append(phases, "finalize")
  /\ exitCode' = IF ~closed THEN FSCK_OPERATIONAL_ERROR
                 ELSE ExitCode(errors_found, errors_corrected, opts)
  /\ UNCHANGED << dev, vh, opts, errors_found, errors_corrected, trace,
                  critical, dev0, runs, roDetected >>
  /\ UNCHANGED Harness

\* The device after the first operations of a replay took effect: a payload
\* is copied from the journal, the journal header is advanced in place.
RECURSIVE ApplyOps(_, _, _)
ApplyOps(d, file, ops) ==
  IF ops = << >> THEN d
  ELSE LET o == Head(ops)
           d2 == CASE o.what = "payload" ->
                        WriteCells(d, file, o.off,
                                   ReadCells(d, o.src, o.len)).d
                   [] o.what = "jh" ->
                        LET j == AsJH(CellAt(d, o.off))
                        IN WriteCells(d, file, o.off,
                                      <<UpdateJournalHeader(j, j.end)>>).d
                   [] OTHER -> d
       IN ApplyOps(d2, file, Tail(ops))

OnDiskHead == DecodeHead(CellAt(dev, VHOffset))

ReplayReturned(r, rm) ==
  /\ dev' = r.d
  /\ last' = [fn |-> "replay", rm |-> rm, ret |-> r.ret,
              valid |-> journal_is_valid(dev, OnDiskHead),
              before |-> dev, ops |-> r.ops]
  /\ trace' = r.ops

\* journal_replay(fd, &vh, rm) called on the device, with the header as read
\* from it, as check_hfsplus_journal calls it: after journal_is_valid
\* returned 1.
CallReplay(rm) ==
  /\ pc = "unit" /\ calls < MaxCalls
  /\ journal_is_valid(dev, OnDiskHead) = 1
  /\ ReplayReturned(journal_replay(dev, isFile, OnDiskHead, rm), rm)
  /\ prev' = last
  /\ calls' = calls + 1
  /\ UNCHANGED << scen, mode, isFile, opts, pc, vh, errors_found,
                  errors_corrected, exitCode, phases, critical, dev0, runs,
                  roDetected >>

CutShort(r, k) ==
  /\ journal_is_valid(dev, OnDiskHead) = 1
  /\ r.ret > 0
  /\ k < Len(r.ops)
  /\ dev' = ApplyOps(dev, isFile, SubSeq(r.ops, 1, k))
  /\ last' = [fn |-> "crash", rm |-> TRUE, ret |-> 0,
              valid |-> journal_is_valid(dev, OnDiskHead),
              before |-> dev, ops |-> SubSeq(r.ops, 1, k)]
  /\ trace' = SubSeq(r.ops, 1, k)

\* A repair-mode replay that would succeed is cut short (power loss) after
\* its first k device operations.
Crash(k) ==
  /\ pc = "unit" /\ calls = 0 /\ last.fn = "none"
  /\ CutShort(journal_replay(dev, isFile, OnDiskHead, TRUE), k)
  /\ prev' = last
  /\ UNCHANGED << scen, mode, isFile, opts, pc, vh, errors_found,
                  errors_corrected, exitCode, phases, critical, dev0, runs,
                  roDetected, calls >>

MaxOps == 6

Next ==
  \/ \E j \in BOOLEAN : Format(j)
  \/ Open
  \/ \E a \in [1..4 -> BOOLEAN] : CheckVolumeHeader(a[1], a[2], a[3], a[4])
  \/ \E aj \in BOOLEAN : CheckJournal(aj)
  \/ \E a \in [1..5 -> BOOLEAN] : CheckCatalog(a[1], a[2], a[3], a[4], a[5])
  \/ CheckAttributes
  \/ Finalize
  \/ Rerun
  \/ \E i \in 1..6, res \in {-1, 0, 1} : HfsCheckPhase(i, res)
  \/ \E closed \in BOOLEAN : HfsClose(closed)
  \/ \E rm \in BOOLEAN : CallReplay(rm)
  \/ \E k \in 0..MaxOps : Crash(k)

Spec == Init /\ [][Next]_vars

---------------------------------------------------------------------------
(* mkfs.hfs : mkfs_hfs_format.c, mkfs_common.c, hfs_detect.c *)

MiB == 1048576
U16(x) == x % 65536
RoundUp512(x) == ((x + 511) \div 512) * 512

\* A char pointer: null, or a string given as the sequence of its character
\* codes.
NULL == [null |-> TRUE, s |-> << >>]
Str(chars) == [null |-> FALSE, s |-> chars]
Colon == 58
LetterA == 65
HfsNameMax == 27
HfsPlusNameMax == 255

\* Variant: the length is checked and the characters are not.
validate_volume_name_hfs_NoColonCheck(name) ==
  IF name.null THEN 0
  ELSE IF Len(name.s) = 0 \/ Len(name.s) > HfsNameMax THEN -1
  ELSE 0

\* validate_volume_name_hfs: strlen, then the loop over the characters.
validate_volume_name_hfs(name) ==
  IF name.null THEN 0
  ELSE IF Len(name.s) = 0 \/ Len(name.s) > HfsNameMax THEN -1
  ELSE IF \E i \in 1..Len(name.s) : name.s[i] = Colon \/ name.s[i] = 0 THEN -1
  ELSE 0

validate_volume_name_hfsplus(name) ==
  IF name.null THEN 0
  ELSE IF Len(name.s) = 0 \/ Len(name.s) > HfsPlusNameMax THEN -1
  ELSE IF \E i \in 1..Len(name.s) : name.s[i] = Colon \/ name.s[i] = 0 THEN -1
  ELSE 0

\* The static validate_volume_name of mkfs_hfs_format.c, which
\* format_hfs_volume calls: printable characters only, no NULL.
validate_volume_name(vname) ==
  IF vname.null THEN -1
  ELSE IF Len(vname.s) = 0 \/ Len(vname.s) > HfsNameMax THEN -1
  ELSE IF \E i \in 1..Len(vname.s) :
            \/ vname.s[i] = Colon \/ vname.s[i] = 0
            \/ vname.s[i] < 32 \/ vname.s[i] > 126
       THEN -1
  ELSE 0

\* calculate_volume_parameters for a device of device_size bytes.
\* total_allocation_blocks and free_allocation_blocks are uint16_t.
calculate_volume_parameters(device_size) ==
  LET abs0 == IF device_size > 32 * MiB
              THEN LET a == ((device_size \div 65536) \div 512) * 512
                   IN RoundUp512(IF a < 512 THEN 512 ELSE a)
              ELSE 512
      tab0 == U16(device_size \div abs0)
      capped == tab0 > 65535
      tab == IF capped THEN 65535 ELSE tab0
      abs == IF capped THEN RoundUp512(device_size \div 65535) ELSE abs0
      cat == IF tab > 1000 THEN (tab \div 250) * abs ELSE 4 * abs
      ext == abs
      bitmap_blks == ((tab + 7) \div 8 + abs - 1) \div abs
      catalog_blocks == (cat + abs - 1) \div abs
      extents_blocks == (ext + abs - 1) \div abs
  IN [device_size |-> device_size, sector_size |-> 512,
      total_sectors |-> device_size \div 512,
      allocation_block_size |-> abs,
      total_allocation_blocks |-> tab,
      free_allocation_blocks |->
         U16(tab - bitmap_blks - catalog_blocks - extents_blocks),
      catalog_file_size |-> cat, extents_file_size |-> ext,
      creation_date |-> HfsNow]

\* Byte n (0 the lowest) of x.
ByteOf(x, n) == (x \div (256 ^ n)) % 256

\* The first MdbBytes bytes of the sector write_master_directory_block
\* builds: the fields up to the volume name, each at the offset the code
\* puts it.
MdbBytes == 64
write_master_directory_block(pa, name) ==
  LET abs == pa.allocation_block_size
      tab == pa.total_allocation_blocks
      bitmap_blks == ((tab + 7) \div 8 + abs - 1) \div abs
      catalog_blocks == (pa.catalog_file_size + abs - 1) \div abs
      extents_blocks == (pa.extents_file_size + abs - 1) \div abs
      alloc_ptr == U16(bitmap_blks + catalog_blocks + extents_blocks)
      first_alloc_block == U16(3 + bitmap_blks)
      clump_size == abs * 4
      name_len == IF Len(name.s) > 27 THEN 27 ELSE Len(name.s)
  IN [b \in 0..(MdbBytes - 1) |->
        CASE b = 0 -> 66
          [] b = 1 -> 68
          [] b \in 2..5 -> ByteOf(pa.creation_date, 5 - b)
          [] b \in 6..9 -> ByteOf(pa.creation_date, 9 - b)
          [] b = 10 -> 1
          [] b = 15 -> 3
          [] b \in 16..17 -> ByteOf(alloc_ptr, 17 - b)
          [] b \in 18..19 -> ByteOf(tab, 19 - b)
          [] b \in 20..23 -> ByteOf(abs, 23 - b)
          [] b \in 24..27 -> ByteOf(clump_size, 27 - b)
          [] b \in 28..29 -> ByteOf(first_alloc_block, 29 - b)
          [] b = 33 -> 16
          [] b \in 34..35 -> ByteOf(pa.free_allocation_blocks, 35 - b)
          [] b = 36 -> name_len
          [] b \in 37..(36 + name_len) -> name.s[b - 36]
          [] OTHER -> 0]

\* Big-endian fields of a byte array.  A 32-bit value is kept as its two
\* 16-bit halves.
BE16(m, off) == m[off] * 256 + m[off + 1]
BE32(m, off) == [hi |-> BE16(m, off), lo |-> BE16(m, off + 2)]
W32(x) == [hi |-> x \div 65536, lo |-> x % 65536]

\* Offsets of the fields of struct hfs_mdb (packed) that
\* hfs_read_volume_info uses.
Off_drSigWord == 0
Off_drAlBlkSiz == 18
Off_drNmAlBlks == 26
Off_drFreeBks == 32
Off_drVN == 34
HFS_SIGNATURE == 16964

\* hfs_read_volume_info on an HFS master directory block m.  drVN is an
\* array of char: with a signed char a length byte above 127 is negative,
\* passes the cap and goes to memcpy as a size; signedChar says which char
\* the build has.
hfs_read_volume_info(m, signedChar) ==
  IF BE16(m, Off_drSigWord) # HFS_SIGNATURE
  THEN [ret |-> -1, crashed |-> FALSE]
  ELSE LET n0 == m[Off_drVN]
           name_len == IF n0 > 27 THEN 27 ELSE n0
       IN IF signedChar /\ n0 > 127
          THEN [ret |-> -1, crashed |-> TRUE]
          ELSE [ret |-> 0, crashed |-> FALSE,
                block_size |-> BE32(m, Off_drAlBlkSiz),
                total_blocks |-> BE16(m, Off_drNmAlBlks),
                free_blocks |-> BE16(m, Off_drFreeBks),
                volume_name |-> [i \in 1..name_len |-> m[Off_drVN + i]]]

---------------------------------------------------------------------------
(* The tools' entry steps as a second state machine: mkfs.hfs from device
   validation to verification, the name option, the checker's open, and the
   leaf walk of the HFS checker's B-tree validation.  scen holds the input
   of the run and last what the run has computed. *)

MaxMiB == 34
MaxNameLen == 257
WalkNodes == 3
MaxWalk == 5

\* Device sizes mkfs.hfs is run on: every size above 0 is accepted.
HfsSizes == { m * MiB + d : m \in 1..MaxMiB, d \in {0, 512} }

\* n characters, a colon at position p if p is in 1..n.
Name(n, p) == Str([i \in 1..n |-> IF i = p THEN Colon ELSE LetterA])
NameInputs ==
  {NULL} \cup { Name(n, p) : n \in 0..MaxNameLen, p \in {0, 1, 2} }
MkNames == { Name(1, 0), Name(5, 0), Name(HfsNameMax, 0), Name(3, 2) }

\* What the host's mount table says about the device.
MountStates == {"absent", "listed", "unreadable"}

\* device_is_mounted: -1 when neither /proc/mounts nor /etc/mtab opens.
device_is_mounted(mtab) ==
  CASE mtab = "unreadable" -> -1
    [] mtab = "listed" -> 1
    [] OTHER -> 0

\* validate_device (lines 285-330), the device being accessible.
validate_device(mtab, force, d) ==
  IF device_is_mounted(mtab) > 0 THEN -1
  ELSE IF ~force /\ d[1] # ZeroCell THEN -1
  ELSE 0

NoParams == [none |-> TRUE]
MkState(fn, ret, pa, info) ==
  [fn |-> fn, ret |-> ret, params |-> pa, info |-> info, rw |-> FALSE]

ToolFrame ==
  UNCHANGED << scen, mode, isFile, opts, vh, errors_found, errors_corrected,
               phases, critical, dev0, runs, roDetected, prev, calls >>

ToolInit ==
  /\ \/ /\ mode = "mkfs.hfs" /\ pc = "mk_validate"
        /\ scen \in [size : HfsSizes, name : MkNames, mtab : MountStates,
                     force : BOOLEAN, blank : BOOLEAN]
        /\ dev = IF scen.blank THEN ZeroCells(3)
                 ELSE <<DataCell(1), ZeroCell, ZeroCell>>
        /\ opts = [repair |-> TRUE, yes |-> TRUE]
        /\ last = MkState("none", 0, NoParams, NoParams)
     \/ /\ mode = "names" /\ pc = "name"
        /\ scen \in [name : NameInputs]
        /\ dev = << >>
        /\ opts = [repair |-> TRUE, yes |-> TRUE]
        /\ last = MkState("none", 0, NoParams, NoParams)
     \/ /\ mode = "fsck.open" /\ pc = "open"
        /\ scen \in [mtab : MountStates]
        /\ dev = << >>
        /\ opts \in Opts
        /\ last = MkState("none", 0, NoParams, NoParams)
     \/ /\ mode = "btwalk" /\ pc = "walk"
        /\ scen \in [first : 1..WalkNodes,
                     flink : [1..WalkNodes -> 0..WalkNodes]]
        /\ dev = << >>
        /\ opts = [repair |-> FALSE, yes |-> FALSE]
        /\ last = [fn |-> "walk", node_num |-> scen.first, visited |-> << >>,
                   errors_found |-> 0, circular |-> FALSE]
  /\ isFile = TRUE
  /\ vh = NoVH
  /\ errors_found = FALSE /\ errors_corrected = FALSE
  /\ exitCode = -1
  /\ trace = << >> /\ phases = << >> /\ critical = {}
  /\ dev0 = dev
  /\ runs = 0
  /\ roDetected = FALSE
  /\ prev = NoCall
  /\ calls = 0

\* mkfs_hfs_format, lines 104-107.
MkValidateDevice ==
  /\ pc = "mk_validate"
  /\ LET r == validate_device(scen.mtab, scen.force, dev) IN
     /\ last' = MkState("validate_device", r, NoParams, NoParams)
     /\ pc' = IF r # 0 THEN "done" ELSE "mk_params"
     /\ exitCode' = IF r # 0 THEN 1 ELSE exitCode
  /\ UNCHANGED << dev, trace >>
  /\ ToolFrame

\* mkfs_hfs_format, lines 142-146.
MkCalculate ==
  /\ pc = "mk_params"
  /\ last' = MkState("calculate_volume_parameters", 0,
                     calculate_volume_parameters(scen.size), NoParams)
  /\ pc' = "mk_format"
  /\ UNCHANGED << dev, trace, exitCode >>
  /\ ToolFrame

\* format_hfs_volume (lines 751-838): the name check, then the writes in
\* the order of the code; dev holds the first three sectors.
MkFormat ==
  /\ pc = "mk_format"
  /\ IF validate_volume_name(scen.name) # 0
     THEN /\ last' = [last EXCEPT !.fn = "format_hfs_volume", !.ret = -1]
          /\ pc' = "done" /\ exitCode' = 1
          /\ UNCHANGED << dev, trace >>
     ELSE LET pa == last.params
              mdb == [k |-> "mdb",
                      bytes |-> write_master_directory_block(pa, scen.name)]
              bitmap_sectors ==
                 ((pa.total_allocation_blocks + 7) \div 8 + 511) \div 512
              catOff == (3 + bitmap_sectors) * 512
          IN /\ dev' = <<BootCell, ZeroCell, mdb>>
             /\ trace' = << OpWrite("boot", 0, 1024),
                            OpWrite("mdb", 1024, 512),
                            OpWrite("bitmap", 3 * 512, bitmap_sectors * 512),
                            OpWrite("catalog", catOff, pa.catalog_file_size),
                            OpWrite("extents", catOff + pa.catalog_file_size,
                                    pa.extents_file_size),
                            OpWrite("mdbalt", pa.device_size - 1024, 512),
                            OpSync >>
             /\ last' = [last EXCEPT !.fn = "format_hfs_volume", !.ret = 0,
                                     !.rw = TRUE]
             /\ pc' = "mk_verify"
             /\ UNCHANGED exitCode
  /\ ToolFrame

\* verify_hfs_volume (lines 842-886): a mismatch is a warning, the tool
\* exits 0.
MkVerify(signedChar) ==
  /\ pc = "mk_verify"
  /\ LET info == hfs_read_volume_info(dev[3].bytes, signedChar) IN
     /\ last' = [last EXCEPT !.fn = "hfs_read_volume_info", !.ret = info.ret,
                             !.info = info]
     /\ exitCode' = IF info.crashed THEN exitCode ELSE 0
  /\ pc' = "done"
  /\ UNCHANGED << dev, trace >>
  /\ ToolFrame

\* The -l option of mkfs.hfs (mkfs_hfs_main.c 150) and of mkfs.hfs+
\* (mkfs_common.c 166-170).
ValidateName(is_hfsplus) ==
  /\ pc = "name"
  /\ last' = MkState(IF is_hfsplus THEN "validate_volume_name_hfsplus"
                     ELSE "validate_volume_name_hfs",
                     IF is_hfsplus THEN validate_volume_name_hfsplus(scen.name)
                     ELSE validate_volume_name_hfs(scen.name),
                     NoParams, NoParams)
  /\ pc' = "done"
  /\ UNCHANGED << dev, trace, exitCode >>
  /\ ToolFrame

\* hfsplus_check_volume, lines 111-119: the device is opened O_RDWR in
\* repair mode, O_RDONLY otherwise; the open succeeds.
FsckOpen ==
  /\ pc = "open"
  /\ last' = [MkState("open", 0, NoParams, NoParams)
                EXCEPT !.rw = opts.repair]
  /\ pc' = "done"
  /\ UNCHANGED << dev, trace, exitCode >>
  /\ ToolFrame

\* One pass of the loop of validate_btree_structure (lines 726-776), every
\* node being readable and of a valid kind.
WalkStep ==
  /\ pc = "walk"
  /\ Len(last.visited) < MaxWalk
  /\ IF last.node_num = 0
     THEN /\ pc' = "done" /\ UNCHANGED last
     ELSE LET nxt == scen.flink[last.node_num]
              back == nxt = scen.first
          IN /\ last' = [last EXCEPT
                           !.visited = Append(@, last.node_num),
                           !.node_num = nxt,
                           !.circular = back,
                           !.errors_found = IF back THEN @ + 1 ELSE @]
             /\ pc' = IF back THEN "done" ELSE "walk"
  /\ UNCHANGED << dev, trace, exitCode >>
  /\ ToolFrame

ToolNext ==
  \/ MkValidateDevice
  \/ MkCalculate
  \/ MkFormat
  \/ \E signedChar \in BOOLEAN : MkVerify(signedChar)
  \/ \E is_hfsplus \in BOOLEAN : ValidateName(is_hfsplus)
  \/ FsckOpen
  \/ WalkStep

ToolSpec == ToolInit /\ [][ToolNext]_vars

---------------------------------------------------------------------------
(* Properties *)

\* The block writes of the scenario's transactions, in journal order.
RECURSIVE Flatten(_)
Flatten(txs) == IF txs = << >> THEN << >> ELSE Head(txs) \o Flatten(Tail(txs))
Pending == Flatten(scen.txs)
FirstCell(b) == b.bnum * BlockCells(scen.g)
Covers(b, c) == c >= FirstCell(b) /\ c < FirstCell(b) + b.n

\* What sector c holds once every pending block write has been applied: the
\* payload of the last write that covers it.
Applied(c) ==
  LET m == CHOOSE i \in 1..Len(Pending) :
             /\ Covers(Pending[i], c)
             /\ \A j \in 1..Len(Pending) : Covers(Pending[j], c) => j <= i
  IN Payload(scen.g, Pending[m], m - 1)[c - FirstCell(Pending[m]) + 1]

Written == { c \in 0..(GCells(scen.g) + MaxPayloadCells) :
               \E i \in 1..Len(Pending) : Covers(Pending[i], c) }

\* A sound volume whose journal holds legal pending transactions, all of
\* them inside the device.
LegalPending ==
  /\ mode = "hfsplus"
  /\ scen.hd = "none" /\ scen.cd = "none" /\ scen.jd = "none"
  /\ scen.txs # << >>
  /\ \A c \in Written : c < GCells(scen.g)

\* A complete -y run that ended with exit code 0 or 1.
FullRepairDone ==
  /\ pc = "done" /\ runs = 1
  /\ opts.repair /\ opts.yes
  /\ exitCode \in {FSCK_OK, FSCK_CORRECTED}

\* C1: after a complete fsck.hfs+ -y run on a valid volume whose journal
\* holds legal pending transactions, every sector a pending block write
\* covers holds that write's payload.
C1_ReplayAppliesEveryBlock ==
  (LegalPending /\ FullRepairDone) =>
     \A c \in Written : dev[c + 1] = Applied(c)

\* The journal header of device d, found as journal_replay finds it.
JournalHeaderCell(d) ==
  LET h == DecodeHead(CellAt(d, VHOffset))
      jib == AsJIB(CellAt(d, h.journalInfoBlock * h.blockSize))
  IN jib.offset \div SectorSize + 1
JournalHeaderOf(d) == AsJH(d[JournalHeaderCell(d)])

SameOutsideJournalHeader(d1, d2, jc) ==
  /\ Len(d1) = Len(d2)
  /\ \A i \in 1..Len(d1) : i # jc => d1[i] = d2[i]

\* The device a single complete repair-mode replay of device d leaves, and
\* the operations it issues.
ReplayOnce(d) == journal_replay(d, isFile, DecodeHead(CellAt(d, VHOffset)), TRUE)

\* The latest call was a successful repair-mode replay, made on a device on
\* which the same transactions' payloads were written before: by a complete
\* replay (header advanced), or by a replay cut short after the last payload
\* write or after the header write.
ReplayedAgain ==
  /\ mode = "unit"
  /\ last.fn = "replay" /\ last.rm /\ last.ret >= 0 /\ last.valid = 1
  /\ \/ prev.fn = "replay" /\ prev.rm /\ prev.ret >= 0
     \/ /\ prev.fn = "crash"
        /\ Len(prev.ops) >= Len(ReplayOnce(prev.before).ops) - 2

\* No payload of the replay of prev.before goes to a sector of the journal
\* or of the journal info block.
NoWriteIntoJournal ==
  \A i \in 1..Len(ReplayOnce(prev.before).ops) :
     LET o == ReplayOnce(prev.before).ops[i] IN
     o.what = "payload" =>
        \A c \in (o.off \div SectorSize)..((o.off + o.len) \div SectorSize - 1) :
           c \notin JournalArea(scen.g)

C3_CleanJournalUntouched ==
  ( /\ mode = "unit" /\ last.fn = "replay" /\ last.valid = 1
    /\ JournalHeaderOf(last.before).start = JournalHeaderOf(last.before).end )
  => (last.ret = 0 /\ last.ops = << >> /\ dev = last.before)

\* A repair-mode replay was called first thing on a clean journal.
C3_Witness ==
  /\ mode = "unit" /\ last.fn = "replay" /\ last.rm /\ last.valid = 1
  /\ prev.fn = "none"
  /\ JournalHeaderOf(last.before).start = JournalHeaderOf(last.before).end
  /\ last.ret = 0

\* C4: after a repair-mode replay of at least one transaction, the journal
\* header on the device has start equal to the end it held before, its
\* stored checksum is the sum over the header with the checksum zeroed,
\* journal_is_valid accepts the journal and a following replay finds it
\* clean.
C4_HeaderAdvanced ==
  (mode = "unit" /\ last.fn = "replay" /\ last.rm /\ last.ret > 0) =>
     LET old == JournalHeaderOf(last.before)
         new == JournalHeaderOf(dev)
     IN /\ new.start = old.end
        /\ new.end = old.end
        /\ new.checksum = JHChecksum(new)
        /\ journal_is_valid(dev, OnDiskHead) = 1
        /\ ReplayOnce(dev).ret = 0
        /\ ReplayOnce(dev).ops = << >>

\* A repair-mode replay replayed two transactions.
C4_Witness ==
  /\ mode = "unit" /\ last.fn = "replay" /\ last.rm /\ last.ret = 2
  /\ JournalHeaderOf(last.before).start # JournalHeaderOf(last.before).end

Seq2Set(q) == { q[i] : i \in 1..Len(q) }

CheckerRun == mode \in {"hfsplus", "mkfs"} /\ runs >= 1

\* C5: a read-only run of the HFS+ checker never writes to the device: at
\* every point of the run the device is as the run found it and no device
\* operation has been issued.
C5_ReadOnlyNeverWrites ==
  (CheckerRun /\ ~opts.repair) => (dev = dev0 /\ trace = << >>)

\* A read-only run ended on a volume whose journal holds a pending
\* transaction.
C5_Witness ==
  /\ mode = "hfsplus" /\ pc = "done" /\ ~opts.repair
  /\ scen.jd = "none" /\ scen.txs # << >>
  /\ "journal" \in Seq2Set(phases)
  /\ exitCode = FSCK_UNCORRECTED

\* C6: a read-only run in which a phase met a condition that repair mode
\* corrects by writing ends with exit code 4.
C6_ReadOnlyReportsUncorrected ==
  (CheckerRun /\ pc = "done" /\ ~opts.repair /\ roDetected) =>
     exitCode = FSCK_UNCORRECTED

\* C7: the check run right after a successful format ends with exit code 0.
C7_FreshFormatChecksClean ==
  ( /\ mode = "mkfs" /\ last.fn = "format" /\ last.ret = 0
    /\ pc = "done" /\ runs = 1 )
  => exitCode = FSCK_OK

\* The run wrote the volume header.
HeaderWritten == \E i \in 1..Len(trace) : trace[i].what = "vh"

\* C8: after a -y run that wrote the volume header and ended with exit code
\* 0 or 1, the sector at 1024 equals the sector at device_size - 1024.
C8_AlternateEqualsPrimary ==
  ( /\ mode = "hfsplus" /\ pc = "done"
    /\ opts.repair /\ opts.yes
    /\ exitCode \in {FSCK_OK, FSCK_CORRECTED}
    /\ HeaderWritten )
  => CellAt(dev, VHOffset) = CellAt(dev, DevSize(dev0) - 1024)

\* C9: every rewrite of the volume header is the sequence write primary,
\* sync, write alternate, sync.
C9_SyncBetweenHeaderWrites ==
  CheckerRun =>
    \A i \in 1..Len(trace) :
       /\ trace[i].what = "vh" =>
            (i < Len(trace) => trace[i + 1].op = "sync")
       /\ trace[i].what = "vhbackup" =>
            /\ i > 2 /\ trace[i - 1].op = "sync" /\ trace[i - 2].what = "vh"
            /\ (i < Len(trace) => trace[i + 1].op = "sync")

\* The place of a phase in the order of the code.
Rank(p) ==
  CASE p \in {"header", "mdb"} -> 1
    [] p \in {"journal", "structure"} -> 2
    [] p \in {"catalog", "bitmap"} /\ mode # "hfs" -> 3
    [] p = "bitmap" -> 3
    [] p = "attributes" -> 4
    [] p = "extents" -> 4
    [] p = "catalog" -> 5
    [] p = "consistency" -> 6
    [] OTHER -> 7

InOrder == \A i, j \in 1..Len(phases) : i < j => Rank(phases[i]) < Rank(phases[j])
FirstPhase == IF mode = "hfs" THEN "mdb" ELSE "header"
PhasesRun == mode \in {"hfsplus", "mkfs", "hfs"}

FullRunDone ==
  /\ PhasesRun /\ pc = "done" /\ phases # << >>
  /\ exitCode \in {FSCK_OK, FSCK_CORRECTED, FSCK_UNCORRECTED}

\* A detected problem was left uncorrected: a phase failed critically, or a
\* read-only phase met a condition that only a write corrects.
LeftUncorrected == critical # {} \/ roDetected

\* C11: the exit code of a full run is 0 only if no phase detected a problem,
\* 1 only if problems were detected and all of them corrected, and 4 whenever
\* a detected problem, a critical phase failure included, was left
\* uncorrected.
C11_ExitCodeReflectsOutcome ==
  FullRunDone =>
    /\ exitCode = FSCK_OK => (~errors_found /\ ~LeftUncorrected)
    /\ exitCode = FSCK_CORRECTED => (errors_found /\ ~LeftUncorrected)
    /\ LeftUncorrected => exitCode = FSCK_UNCORRECTED

\* The on-disk header, and the sector of the allocation bitmap: where the
\* formatter wrote it (3 * sector_size) or where the scenario has it.
DiskHead == DecodeHead(CellAt(dev, VHOffset))
BitmapCell == IF mode = "mkfs" THEN CellAt(dev, 3 * SectorSize)
              ELSE dev[AllocCell(scen.g) + 1]
HasBitmap == BitmapCell.k = "bitmap"
CountedFree == DiskHead.totalBlocks - BitmapCell.used

SuccessfulFormat ==
  mode = "mkfs" /\ last.fn = "format" /\ last.ret = 0 /\ pc = "idle"
SuccessfulRepair ==
  /\ mode \in {"hfsplus", "mkfs"} /\ pc = "done" /\ opts.repair
  /\ phases # << >> /\ exitCode \in {FSCK_OK, FSCK_CORRECTED}

\* C12: after every successful format and every successful repair run the
\* header's freeBlocks plus the number of set bits of the allocation bitmap
\* equals totalBlocks.
C12_FreeBlocksMatchBitmap ==
  ((SuccessfulFormat \/ SuccessfulRepair) /\ HasBitmap) =>
     DiskHead.freeBlocks + BitmapCell.used = DiskHead.totalBlocks

\* The volume is sound except that the header's freeBlocks differs from the
\* bitmap's count of free blocks.
FreeBlocksOverwritten ==
  /\ mode = "hfsplus" /\ scen.hd = "free0" /\ scen.cd = "none"
  /\ scen.jd \in {"none", "nojournal"} /\ scen.txs = << >>
  /\ opts.repair /\ opts.yes

\* C13: fsck.hfs+ -y on an otherwise valid volume whose header freeBlocks
\* differs from the bitmap's count of free blocks exits 1 and leaves
\* freeBlocks equal to the counted value; the run after it exits 0.
C13_FreeBlocksRecounted ==
  (FreeBlocksOverwritten /\ pc = "done") =>
     /\ runs = 1 => exitCode = FSCK_CORRECTED
     /\ DiskHead.freeBlocks = CountedFree
     /\ runs = 2 => exitCode = FSCK_OK

\* The run found the INCONSISTENT (dirty) bit set on disk and the disk now
\* has it clear.
DirtyCleared ==
  /\ CheckerRun /\ ReadOK(dev0, VHOffset, SizeofVH)
  /\ HFSPLUS_DIRTY \in DecodeHead(CellAt(dev0, VHOffset)).attributes
  /\ HFSPLUS_DIRTY \notin DiskHead.attributes

\* C14: the on-disk INCONSISTENT bit is cleared only by a run in which every
\* phase completed without a critical or uncorrected error; in every other
\* run the on-disk bit keeps the value the run found.
C14_DirtyClearedOnlyAfterCleanPass ==
  DirtyCleared =>
    /\ pc \in {"done", "idle"}
    /\ critical = {}
    /\ exitCode \in {FSCK_OK, FSCK_CORRECTED}

\* A -y run ended on a volume that is sound except for the signature of
\* its primary header (hd = "sigprimary") or of both headers ("sigboth").
BadSignatureRunDone(hd) ==
  /\ mode = "hfsplus" /\ scen.hd = hd /\ scen.cd = "none"
  /\ opts.repair /\ opts.yes
  /\ pc = "done" /\ runs = 1
AlternateSound ==
  DecodeHead(CellAt(dev0, DevSize(dev0) - 1024)).signature = HFSPLUS_SIGNATURE

\* C15: when the primary header is unreadable and the alternate at
\* device_size - 1024 is sound, a -y run copies the alternate over the
\* primary and goes on with the check; when both are bad the run fails.
C15_AlternateHeaderRestoresPrimary ==
  /\ (BadSignatureRunDone("sigprimary") /\ AlternateSound) =>
        /\ CellAt(dev, VHOffset) = CellAt(dev0, DevSize(dev0) - 1024)
        /\ "header" \in Seq2Set(phases)
  /\ BadSignatureRunDone("sigboth") =>
        /\ phases = << >>
        /\ exitCode \notin {FSCK_OK, FSCK_CORRECTED}

\* The journal info block and the journal header the on-disk volume header
\* leads to.
DiskJIB == AsJIB(CellAt(dev, DiskHead.journalInfoBlock * DiskHead.blockSize))
DiskJH == AsJH(CellAt(dev, DiskJIB.offset))
JournaledDevice ==
  /\ mode \in {"hfsplus", "unit"}
  /\ ReadOK(dev, VHOffset, SizeofVH)
  /\ HFSPLUS_VOL_JOURNALED \in DiskHead.attributes

\* C16: journal_is_valid returns 1 for a journaled volume only if the
\* journal info block has neither ON_OTHER_DEVICE nor NEED_INIT set, magic
\* and endian have their fixed values, the header's size equals the info
\* block's, start and end do not exceed size, and the stored checksum is the
\* word sum of the header with the checksum field zeroed.
C16_ValidJournalIsWellFormed ==
  (JournaledDevice /\ journal_is_valid(dev, DiskHead) = 1) =>
    /\ JOURNAL_ON_OTHER_DEVICE \notin DiskJIB.flags
    /\ JOURNAL_NEED_INIT \notin DiskJIB.flags
    /\ DiskJH.magic = 1246645368 /\ DiskJH.endian = 305419896
    /\ DiskJH.size = DiskJIB.size
    /\ DiskJH.start <= DiskJH.size /\ DiskJH.end <= DiskJH.size
    /\ DiskJH.checksum =
         DiskJH.magic + DiskJH.endian + DiskJH.start + DiskJH.end
         + DiskJH.size + DiskJH.blhdrSize + DiskJH.jhdrSize

\* journal_is_valid was called on a journal with pending transactions and
\* returned 1.
C16_Witness ==
  /\ mode = "unit" /\ last.fn = "replay" /\ last.valid = 1
  /\ scen.txs # << >>
  /\ journal_is_valid(last.before,
                      DecodeHead(CellAt(last.before, VHOffset))) = 1

\* The journal phase of the run has just ended and journal_disable returned
\* success in it: the volume was journaled when the run started and the
\* header in memory, which check_hfsplus_journal takes over from
\* journal_disable only on success, is no longer journaled.
JournalDisabled ==
  /\ mode = "hfsplus" /\ pc = "catalog"
  /\ HFSPLUS_VOL_JOURNALED \in DecodeHead(CellAt(dev0, VHOffset)).attributes
  /\ HFSPLUS_VOL_JOURNALED \notin vh.head.attributes

NotJournaled(h) ==
  HFSPLUS_VOL_JOURNALED \notin h.attributes /\ h.journalInfoBlock = 0

\* C17: after journal_disable returned success, the primary header at 1024
\* and the alternate header at device_size - 1024 both have the JOURNALED
\* bit clear and journalInfoBlock 0.
C17_DisableClearsBothHeaders ==
  JournalDisabled =>
    /\ NotJournaled(DiskHead)
    /\ NotJournaled(DecodeHead(CellAt(dev, DevSize(dev0) - 1024)))

\* The keys of the catalog's first leaf node as the run found them, and
\* whether two adjacent ones are not strictly ascending.
LeafKeys == dev0[2].keys
KeysNotAscending ==
  \E i \in 1..(Len(LeafKeys) - 1) : LeafKeys[i] >= LeafKeys[i + 1]

\* A read-only run ended on a volume that is sound except for the order of
\* the keys of its catalog leaf.
KeyOrderRunDone ==
  /\ mode = "hfsplus" /\ scen.g.bs = 512 /\ scen.hd = "none"
  /\ scen.cd \in {"keyorder", "keyequal"}
  /\ ~opts.repair /\ pc = "done" /\ runs = 1

\* C18: when two adjacent leaf keys are not strictly ascending (descending
\* or equal), a read-only run on the volume exits 4.
C18_KeyOrderViolationReported ==
  (KeyOrderRunDone /\ KeysNotAscending) => exitCode = FSCK_UNCORRECTED

\* The sector at journal position pos of device d, read circularly:
\* positions that reach size continue after the journal header.
CircularCell(d, g, pos) ==
  CellAt(d, g.joff + (IF pos >= JSize THEN pos - JSize + SizeofJH ELSE pos))

\* A complete -y run on the volume whose pending transaction wraps.
WrappedReplayDone ==
  /\ mode = "hfsplus" /\ scen.jd = "wrap"
  /\ FullRepairDone
  /\ \E i \in 1..Len(trace) : trace[i].what = "payload"

\* C19: a pending transaction whose payload spans the end of the journal
\* area is replayed with the bytes read circularly from the journal.
C19_WrappedTransactionReplayed ==
  WrappedReplayDone =>
     \A j \in 0..(WrapTx[1][1].n - 1) :
        dev[FirstCell(WrapTx[1][1]) + j + 1]
          = CircularCell(dev0, scen.g,
                         WrapStart + SizeofBLH + SizeofBI + j * SectorSize)

\* The place of a formatter's write in the order boot blocks, primary
\* header, allocation bitmap, catalog file, extents file, attributes file,
\* alternate header, last.ops being the calls the formatter made.  A zeroed
\* node belongs to the file it lies in.
FormatStage(o) ==
  CASE o.what = "boot" -> 1
    [] o.what = "vh" -> 2
    [] o.what = "bitmap" -> 3
    [] o.what \in {"catalog", "leaf"} -> 4
    [] o.what = "extents" -> 5
    [] o.what = "attributes" -> 6
    [] o.what = "vhalt" -> 7
    [] o.what = "node" ->
         IF \E k \in 1..Len(last.ops) :
               last.ops[k].what = "extents" /\ last.ops[k].off <= o.off
         THEN 5 ELSE 4
    [] OTHER -> 0

\* C20: a successful format writes boot blocks, primary header, allocation
\* bitmap, catalog file, extents file, attributes file and alternate header,
\* in this order, and ends with a sync after the last write.
C20_FormatWriteOrder ==
  SuccessfulFormat =>
    /\ \A st \in 1..7 :
          \E i \in 1..Len(last.ops) :
             last.ops[i].op = "write" /\ FormatStage(last.ops[i]) = st
    /\ \A i, j \in 1..Len(last.ops) :
          (i < j /\ last.ops[i].op = "write" /\ last.ops[j].op = "write")
             => FormatStage(last.ops[i]) <= FormatStage(last.ops[j])
    /\ last.ops[Len(last.ops)].op = "sync"
    /\ \A i \in 1..(Len(last.ops) - 1) : last.ops[i].op = "write"

\* mkfs.hfs has computed the geometry of the device.
GeometryComputed ==
  mode = "mkfs.hfs" /\ pc \in {"mk_format", "mk_verify", "done"}
  /\ last.params # NoParams

Max(a, b) == IF a > b THEN a ELSE b
Min(a, b) == IF a < b THEN a ELSE b

\* C21: for every device size the HFS formatter accepts, allocBlockSize =
\* max(512, round_up_to_512(deviceSize / 65536)) and totalBlocks =
\* min(65535, floor(deviceSize / allocBlockSize)); so totalBlocks is at most
\* 65,535 and totalBlocks * allocBlockSize is at most deviceSize.
C21_HfsGeometry ==
  GeometryComputed =>
    LET pa == last.params IN
    /\ pa.allocation_block_size
         = Max(512, RoundUp512(scen.size \div 65536))
    /\ pa.total_allocation_blocks
         = Min(65535, scen.size \div pa.allocation_block_size)
    /\ pa.total_allocation_blocks <= 65535
    /\ pa.total_allocation_blocks * pa.allocation_block_size <= scen.size

\* mkfs.hfs has formatted the device and read the volume back.
FormattedAndRead ==
  /\ mode = "mkfs.hfs" /\ pc = "done"
  /\ last.fn = "hfs_read_volume_info" /\ last.ret = 0

\* C22: on a freshly formatted HFS volume hfs_read_volume_info yields the
\* block size, the block count and the volume name the formatter computed
\* and wrote.
C22_ReaderDecodesWhatFormatterWrote ==
  FormattedAndRead =>
    /\ last.info.block_size = W32(last.params.allocation_block_size)
    /\ last.info.total_blocks = last.params.total_allocation_blocks
    /\ last.info.volume_name = scen.name.s

\* The run has opened the device for writing.
OpenedForWriting == mode \in {"mkfs.hfs", "fsck.open"} /\ last.rw

\* C23: formatting and checking in repair mode do not open for writing a
\* device the host's mount table lists as mounted.
C23_MountedDeviceRefused ==
  OpenedForWriting => scen.mtab # "listed"

\* What the claim says of a name with length limit max.
NameAccepted(name, max) ==
  \/ name.null
  \/ /\ Len(name.s) >= 1 /\ Len(name.s) <= max
     /\ \A i \in 1..Len(name.s) : name.s[i] # Colon

NameValidated == mode = "names" /\ pc = "done"

\* C24: validate_volume_name_hfs returns 0 exactly when the name is NULL or
\* has 1..27 characters and no ':', and -1 otherwise;
\* validate_volume_name_hfsplus likewise with 1..255 characters.
C24_NameValidation ==
  NameValidated =>
    /\ last.ret \in {0, -1}
    /\ last.fn = "validate_volume_name_hfs" =>
         (last.ret = 0 <=> NameAccepted(scen.name, 27))
    /\ last.fn = "validate_volume_name_hfsplus" =>
         (last.ret = 0 <=> NameAccepted(scen.name, 255))

\* A name of 27 characters passed the HFS check, and the same call rejects
\* names with a colon.
C24_Witness ==
  /\ NameValidated /\ last.fn = "validate_volume_name_hfs"
  /\ ~scen.name.null /\ Len(scen.name.s) = 27 /\ last.ret = 0

\* C26: the leaf walk visits no node more than once, and an fLink that
\* leads to a node already visited is reported as a circular reference.
C26_LeafWalkVisitsOnce ==
  mode = "btwalk" =>
    /\ \A i, j \in 1..Len(last.visited) :
          i < j => last.visited[i] # last.visited[j]
    /\ last.node_num \in Seq2Set(last.visited) => last.circular

\* journal_replay has been called and has returned.
ReplayCalled == mode = "unit" /\ last.fn = "replay"

\* The payload writes of the call, and the largest number of blocks a
\* transaction of the scenario has.
PayloadWrites == { i \in 1..Len(last.ops) : last.ops[i].what = "payload" }
RECURSIVE MaxBlocks(_)
MaxBlocks(txs) ==
  IF txs = << >> THEN 0
  ELSE LET m == MaxBlocks(Tail(txs))
       IN IF Len(Head(txs)) > m THEN Len(Head(txs)) ELSE m

\* C25: journal_replay returns on every journal content, having processed
\* at most 1,000 transactions; when the block infos' next pointers cycle so
\* that end is never reached it returns an error, and whenever it returns
\* an error the journal header's start on the device is as it was.
C25_ReplayTerminates ==
  ReplayCalled =>
    /\ Cardinality(PayloadWrites) <= max_transactions * MaxBlocks(scen.txs)
    /\ scen.jd = "cycle" => last.ret < 0
    /\ last.ret < 0 =>
         JournalHeaderOf(dev).start = JournalHeaderOf(last.before).start

\* A repair-mode replay of a journal whose transaction points back to
\* itself has written its payload 1,000 times and returned EINVAL.
C25_Witness ==
  /\ ReplayCalled /\ scen.jd = "cycle" /\ last.rm
  /\ Cardinality(PayloadWrites) = max_transactions
  /\ last.ret = -EINVAL

\* The size of the scenario's volume in bytes.
VolumeBytes == scen.g.tb * scen.g.bs

\* C27: every byte journal replay writes lies inside the volume: each
\* payload write ends at or before totalBlocks * blockSize, and the device
\* does not grow.
C27_ReplayWritesInsideVolume ==
  ReplayCalled =>
    /\ \A i \in PayloadWrites :
          last.ops[i].off + last.ops[i].len <= VolumeBytes
    /\ DevSize(dev) <= VolumeBytes

\* C28: when journal_replay returns an error because a block list header,
\* a block count or a block info is invalid or the loop guard fired, it has
\* written no payload block during that call.
C28_ReplayAllOrNothing ==
  (ReplayCalled /\ last.ret = -EINVAL) => PayloadWrites = {}

\* C29: in a repair-mode replay a sync stands between the last payload
\* write and the write of the journal header with start = end.
C29_PayloadSyncedBeforeHeader ==
  (ReplayCalled /\ last.rm /\ last.ret > 0) =>
    \A i \in 1..Len(last.ops) :
       last.ops[i].what = "jh" =>
         \A p \in PayloadWrites :
            p < i => \E k \in (p + 1)..(i - 1) : last.ops[k].op = "sync"

\* The BTHeaderRec on disk, and a repair-mode run whose catalog phase has
\* ended without a critical error.
DiskBT == AsBT(CellAt(dev, 0))
CatalogRepairedNoCritical ==
  /\ mode = "hfsplus" /\ opts.repair
  /\ \E i \in 1..Len(phases) : phases[i] = "catalog"
  /\ "catalog" \notin critical

\* C30: after a repair-mode catalog check that returns without a critical
\* error, the header record on disk has rootNode, firstLeafNode and
\* lastLeafNode below totalNodes and freeNodes at most totalNodes.
C30_HeaderRecInRangeAfterRepair ==
  CatalogRepairedNoCritical =>
    /\ DiskBT.rootNode < DiskBT.totalNodes
    /\ DiskBT.firstLeafNode < DiskBT.totalNodes
    /\ DiskBT.lastLeafNode < DiskBT.totalNodes
    /\ DiskBT.freeNodes <= DiskBT.totalNodes

=============================================================================
